---- MODULE Spec2Model ----
(***************************************************************************)
(* A model of the lens-imaging library: the parameter layer                *)
(* (jaxtronomy/Inference/parameters.py, class Parameters), the model       *)
(* composers (MassModelBase, LightModelBase), LensImage.simulation, the    *)
(* convolution strategies, the bilinear interpolation operator and the     *)
(* reparameterization routine unconstrain_reparam.                         *)
(*                                                                         *)
(* Numbers are integers counting halves (the model's 2 is the program's    *)
(* 1.0), so that the bounds [0, 1], the value 0.5 and the median of two    *)
(* whole samples are all exact.                                            *)
(*                                                                         *)
(* A Python value (scalar, 1-D array, 2-D array) is a record               *)
(* [tag, a] with a its rows: a scalar is one row of one element, a 1-D     *)
(* array is one row, an image is its list of rows.                         *)
(***************************************************************************)
EXTENDS Integers, Sequences, FiniteSets, TLC

VARIABLES
    status,         \* "new" before __init__, then "built" or "failed"
    err,            \* the exception __init__ raised ("" when none)
    kwargs_model,   \* self._kwargs_model
    kwargs_init,    \* self._kwargs_init
    kwargs_prior,   \* self._kwargs_prior
    kwargs_fixed,   \* self._kwargs_fixed
    init_values,    \* self._init_values
    prior,          \* self._prior_types, _lowers, _uppers, _means, _widths
    num_params,     \* self._num_params
    names_cache,    \* self._names (has = hasattr(self, '_names'))
    ml_values,      \* self._ml_values
    kwargs_ml,      \* self._kwargs_ml
    map_values,     \* self._map_values
    kwargs_map,     \* self._kwargs_map
    last_fit,       \* history: the argument of the latest set_best_fit
    last_samples,   \* history: the argument of the latest set_samples
    ret,            \* the latest call and what it returned
    composite,      \* a MassModelBase or LightModelBase object
    composite_ret,  \* the latest call on the composite and its result
    lens_image,     \* a LensImage object and the calls it has made
    lens_image_ret, \* the latest call on the LensImage and its result
    conv,           \* a convolution object of convolution.py
    conv_ret,       \* the latest call on the convolution object
    interpol_in,    \* the arguments of build_bilinear_interpol_matrix
    interpol_ret,   \* what build_bilinear_interpol_matrix returned
    reparam_in,     \* the arguments of unconstrain_reparam
    reparam_ret     \* what unconstrain_reparam returned and recorded

\* The state outside the Parameters object.
outside == <<composite, composite_ret, lens_image, lens_image_ret, conv,
             conv_ret, interpol_in, interpol_ret, reparam_in, reparam_ret>>

\* The state of the Parameters object.
parameters == <<status, err, kwargs_model, kwargs_init, kwargs_prior,
                kwargs_fixed, init_values, prior, num_params, names_cache,
                ml_values, kwargs_ml, map_values, kwargs_map, last_fit,
                last_samples, ret>>

vars == <<parameters, outside>>

(***************************************************************************)
(* Bounds of the explored inputs.                                          *)
(***************************************************************************)
MaxProfiles == 2    \* profiles in a model specification, all classes together
MaxPix == 2         \* pixels per axis of a PIXELATED grid
MaxSamples == 2     \* rows of the sample array given to set_samples

(***************************************************************************)
(* Python values.                                                          *)
(***************************************************************************)
Scalar(v) == [tag |-> "scalar", a |-> << <<v>> >>]
Array1(s) == [tag |-> "array", a |-> <<s>>]
Image(rows) == [tag |-> "image", a |-> rows]
PyLen(val) == Len(val.a[1])

RECURSIVE ConcatRows(_)
ConcatRows(rows) ==
    IF rows = <<>> THEN <<>> ELSE Head(rows) \o ConcatRows(Tail(rows))

\* The columns one after the other (Fortran order).
FlattenColumnMajor(img) ==
    LET nx == Len(img.a)
        ny == Len(img.a[1])
    IN  [p \in 1..(nx * ny) |-> img.a[((p - 1) % nx) + 1][((p - 1) \div nx) + 1]]

\* ndarray.flatten(): the rows one after the other (C order).
Flatten(img) == ConcatRows(img.a)

\* args[i:i + n] with i counted from 0.
Slice(args, i, n) == [j \in 1..n |-> args[i + j]]

\* ndarray.reshape(nx, ny): row r holds elements (r-1)*ny+1 .. r*ny.
Reshape(flat, nx, ny) ==
    Image([r \in 1..nx |-> [c \in 1..ny |-> flat[(r - 1) * ny + c]]])

DictSet(d, k, v) == [x \in (DOMAIN d) \cup {k} |-> IF x = k THEN v ELSE d[x]]

(***************************************************************************)
(* The profile classes' declared parameter names.                          *)
(***************************************************************************)
Shear_param_names == <<"gamma1", "gamma2", "ra_0", "dec_0">>
ShearGammaPsi_param_names == <<"gamma_ext", "psi_ext", "ra_0", "dec_0">>
\* The classes below live in modules that are not part of the sources at hand.
SIE_param_names == <<"theta_E", "e1", "e2", "center_x", "center_y">>
Gaussian_param_names == <<"amp", "sigma", "center_x", "center_y">>
Sersic_param_names ==
    <<"amp", "R_sersic", "n_sersic", "e1", "e2", "center_x", "center_y">>
PixelatedSource_param_names == <<"x_coords", "y_coords", "image">>

ModelKeys == <<"lens_model_list", "source_model_list", "lens_light_model_list">>
KwargsKeys == <<"kwargs_lens", "kwargs_source", "kwargs_lens_light">>

\* Parameters._get_param_names_for_model: profile_class stays unbound when no
\* branch matches, and the return statement then raises UnboundLocalError.
get_param_names_for_model(kwargs_key, model) ==
    IF kwargs_key \in {"kwargs_source", "kwargs_lens_light"}
    THEN CASE model = "GAUSSIAN" -> [err |-> "", names |-> Gaussian_param_names]
           [] model = "SERSIC" -> [err |-> "", names |-> Sersic_param_names]
           [] model = "PIXELATED" ->
                [err |-> "", names |-> PixelatedSource_param_names]
           [] OTHER -> [err |-> "UnboundLocalError", names |-> <<>>]
    ELSE IF kwargs_key = "kwargs_lens"
    THEN CASE model = "SIE" -> [err |-> "", names |-> SIE_param_names]
           [] model = "SHEAR" -> [err |-> "", names |-> Shear_param_names]
           [] model = "SHEAR_GAMMA_PSI" ->
                [err |-> "", names |-> Shear_param_names]
           [] OTHER -> [err |-> "UnboundLocalError", names |-> <<>>]
    ELSE [err |-> "UnboundLocalError", names |-> <<>>]

(***************************************************************************)
(* Encoding: structured kwargs to the flat vector.                         *)
(***************************************************************************)
\* Only x_coords counts as grid geometry.
must_be_fixed_x_only(name) == name = "x_coords"

\* The names that may never be free in a PIXELATED profile (line 172).
must_be_fixed(name) == name \in {"x_coords", "y_coords"}

\* The loop over param_names in Parameters._set_params (lines 169-177).
RECURSIVE set_params_names(_, _, _, _, _, _)
set_params_names(model, kwargs_profile, fixed, pn, j, args) ==
    IF j > Len(pn) THEN [err |-> "", args |-> args]
    ELSE LET name == pn[j] IN
         IF name \in DOMAIN fixed
         THEN set_params_names(model, kwargs_profile, fixed, pn, j + 1, args)
         ELSE IF model = "PIXELATED"
         THEN IF must_be_fixed(name)
              THEN [err |-> "ValueError", args |-> <<>>]
              ELSE IF "image" \notin DOMAIN kwargs_profile
              THEN [err |-> "KeyError", args |-> <<>>]
              ELSE set_params_names(model, kwargs_profile, fixed, pn, j + 1,
                                    args \o Flatten(kwargs_profile["image"]))
         ELSE IF name \notin DOMAIN kwargs_profile
         THEN [err |-> "KeyError", args |-> <<>>]
         ELSE set_params_names(model, kwargs_profile, fixed, pn, j + 1,
                               Append(args, kwargs_profile[name].a[1][1]))

\* The loop over the profiles of one class in Parameters._set_params.
RECURSIVE set_params_profiles(_, _, _, _, _, _, _)
set_params_profiles(km, kf, kwargs, kwargs_model_key, kwargs_key, k, args) ==
    IF k > Len(km[kwargs_model_key]) THEN [err |-> "", args |-> args]
    ELSE LET model == km[kwargs_model_key][k]
             pn == get_param_names_for_model(kwargs_key, model)
             r == set_params_names(model, kwargs[kwargs_key][k],
                                   kf[kwargs_key][k], pn.names, 1, args)
         IN  IF pn.err # "" THEN [err |-> pn.err, args |-> <<>>]
             ELSE IF r.err # "" THEN r
             ELSE set_params_profiles(km, kf, kwargs, kwargs_model_key,
                                      kwargs_key, k + 1, r.args)

set_params(km, kf, kwargs, kwargs_model_key, kwargs_key) ==
    set_params_profiles(km, kf, kwargs, kwargs_model_key, kwargs_key, 1, <<>>)

kwargs2args(km, kf, kwargs) ==
    LET m == set_params(km, kf, kwargs, "lens_model_list", "kwargs_lens")
        s == set_params(km, kf, kwargs, "source_model_list", "kwargs_source")
        l == set_params(km, kf, kwargs, "lens_light_model_list",
                        "kwargs_lens_light")
    IN  IF m.err # "" THEN m
        ELSE IF s.err # "" THEN s
        ELSE IF l.err # "" THEN l
        ELSE [err |-> "", args |-> m.args \o s.args \o l.args]

(***************************************************************************)
(* Decoding: the flat vector to structured kwargs.                         *)
(***************************************************************************)
\* The loop over param_names in Parameters._get_params (lines 145-159);
\* i counts the slots consumed so far (the next slot is args[i + 1] here).
RECURSIVE get_params_names(_, _, _, _, _, _, _)
get_params_names(model, fixed, pn, j, args, i, kwargs) ==
    IF j > Len(pn) THEN [err |-> "", kwargs |-> kwargs, i |-> i]
    ELSE LET name == pn[j] IN
         IF name \notin DOMAIN fixed
         THEN IF model = "PIXELATED"
              THEN IF "x_coords" \notin DOMAIN fixed
                      \/ "y_coords" \notin DOMAIN fixed
                   THEN [err |-> "ValueError", kwargs |-> <<>>, i |-> i]
                   ELSE LET n_pix_x == PyLen(fixed["x_coords"])
                            n_pix_y == PyLen(fixed["y_coords"])
                            num_param == n_pix_x * n_pix_y
                        IN  get_params_names(model, fixed, pn, j + 1, args,
                                i + num_param,
                                DictSet(kwargs, "image",
                                        Reshape(Slice(args, i, num_param),
                                                n_pix_x, n_pix_y)))
              ELSE get_params_names(model, fixed, pn, j + 1, args, i + 1,
                                    DictSet(kwargs, name, Scalar(args[i + 1])))
         ELSE get_params_names(model, fixed, pn, j + 1, args, i,
                               DictSet(kwargs, name, fixed[name]))

\* The loop over the profiles of one class in Parameters._get_params.
RECURSIVE get_params_profiles(_, _, _, _, _, _, _, _)
get_params_profiles(km, kf, args, i, kwargs_model_key, kwargs_key, k, kwargs_list) ==
    IF k > Len(km[kwargs_model_key])
    THEN [err |-> "", kwargs_list |-> kwargs_list, i |-> i]
    ELSE LET model == km[kwargs_model_key][k]
             pn == get_param_names_for_model(kwargs_key, model)
             r == get_params_names(model, kf[kwargs_key][k], pn.names, 1,
                                   args, i, <<>>)
         IN  IF pn.err # ""
             THEN [err |-> pn.err, kwargs_list |-> <<>>, i |-> i]
             ELSE IF r.err # ""
             THEN [err |-> r.err, kwargs_list |-> <<>>, i |-> r.i]
             ELSE get_params_profiles(km, kf, args, r.i, kwargs_model_key,
                                      kwargs_key, k + 1,
                                      Append(kwargs_list, r.kwargs))

get_params(km, kf, args, i, kwargs_model_key, kwargs_key) ==
    get_params_profiles(km, kf, args, i, kwargs_model_key, kwargs_key, 1, <<>>)

NoKwargs ==
    [kwargs_lens |-> <<>>, kwargs_source |-> <<>>, kwargs_lens_light |-> <<>>]

\* A decode that reads the source profiles before the lens profiles.
args2kwargs_source_first(km, kf, args) ==
    LET s == get_params(km, kf, args, 0, "source_model_list", "kwargs_source")
        m == get_params(km, kf, args, s.i, "lens_model_list", "kwargs_lens")
        l == get_params(km, kf, args, m.i, "lens_light_model_list",
                        "kwargs_lens_light")
    IN  IF m.err # "" THEN [err |-> m.err, kwargs |-> NoKwargs, i |-> m.i]
        ELSE IF s.err # "" THEN [err |-> s.err, kwargs |-> NoKwargs, i |-> s.i]
        ELSE IF l.err # "" THEN [err |-> l.err, kwargs |-> NoKwargs, i |-> l.i]
        ELSE [err |-> "",
              kwargs |-> [kwargs_lens |-> m.kwargs_list,
                          kwargs_source |-> s.kwargs_list,
                          kwargs_lens_light |-> l.kwargs_list],
              i |-> l.i]

\* Parameters.args2kwargs; the result also carries i, the slots consumed.
args2kwargs(km, kf, args) ==
    LET m == get_params(km, kf, args, 0, "lens_model_list", "kwargs_lens")
        s == get_params(km, kf, args, m.i, "source_model_list",
                        "kwargs_source")
        l == get_params(km, kf, args, s.i, "lens_light_model_list",
                        "kwargs_lens_light")
    IN  IF m.err # "" THEN [err |-> m.err, kwargs |-> NoKwargs, i |-> m.i]
        ELSE IF s.err # "" THEN [err |-> s.err, kwargs |-> NoKwargs, i |-> s.i]
        ELSE IF l.err # "" THEN [err |-> l.err, kwargs |-> NoKwargs, i |-> l.i]
        ELSE [err |-> "",
              kwargs |-> [kwargs_lens |-> m.kwargs_list,
                          kwargs_source |-> s.kwargs_list,
                          kwargs_lens_light |-> l.kwargs_list],
              i |-> l.i]

(***************************************************************************)
(* Labels.                                                                 *)
(***************************************************************************)
\* The labels of a pixel block (line 260): a_0 .. a_{num_param - 1}.
pixel_labels_from_one(num_param) ==
    [i \in 1..num_param |-> "a_" \o ToString(i)]

pixel_labels(num_param) == [i \in 1..num_param |-> "a_" \o ToString(i - 1)]

\* The loop over param_names in Parameters._set_names (lines 254-262).
RECURSIVE set_names_names(_, _, _, _, _)
set_names_names(model, fixed, pn, j, names) ==
    IF j > Len(pn) THEN [err |-> "", names |-> names]
    ELSE LET name == pn[j] IN
         IF name \in DOMAIN fixed
         THEN set_names_names(model, fixed, pn, j + 1, names)
         ELSE IF model = "PIXELATED"
         THEN IF "x_coords" \notin DOMAIN fixed
                 \/ "y_coords" \notin DOMAIN fixed
              THEN [err |-> "KeyError", names |-> <<>>]
              ELSE LET num_param == PyLen(fixed["x_coords"])
                                    * PyLen(fixed["y_coords"])
                   IN  set_names_names(model, fixed, pn, j + 1,
                                       names \o pixel_labels(num_param))
         ELSE set_names_names(model, fixed, pn, j + 1, Append(names, name))

RECURSIVE set_names_profiles(_, _, _, _, _, _)
set_names_profiles(km, kf, kwargs_model_key, kwargs_key, k, names) ==
    IF k > Len(km[kwargs_model_key]) THEN [err |-> "", names |-> names]
    ELSE LET model == km[kwargs_model_key][k]
             pn == get_param_names_for_model(kwargs_key, model)
             r == set_names_names(model, kf[kwargs_key][k], pn.names, 1, names)
         IN  IF pn.err # "" THEN [err |-> pn.err, names |-> <<>>]
             ELSE IF r.err # "" THEN r
             ELSE set_names_profiles(km, kf, kwargs_model_key, kwargs_key,
                                     k + 1, r.names)

set_names(km, kf, kwargs_model_key, kwargs_key) ==
    set_names_profiles(km, kf, kwargs_model_key, kwargs_key, 1, <<>>)

\* The body of the names property when the cache is not set (lines 51-53).
compute_names(km, kf) ==
    LET m == set_names(km, kf, "lens_model_list", "kwargs_lens")
        s == set_names(km, kf, "source_model_list", "kwargs_source")
        l == set_names(km, kf, "lens_light_model_list", "kwargs_lens_light")
    IN  IF m.err # "" THEN m
        ELSE IF s.err # "" THEN s
        ELSE IF l.err # "" THEN l
        ELSE [err |-> "", names |-> m.names \o s.names \o l.names]

(***************************************************************************)
(* Prior metadata.  A number that may be NaN is a record [nan, v]; a prior *)
(* declaration entry [kind, p1, p2] is a record with those fields.         *)
(***************************************************************************)
Num(v) == [nan |-> FALSE, v |-> v]
NaN == [nan |-> TRUE, v |-> 0]
Nums(flat) == [i \in 1..Len(flat) |-> Num(flat[i])]
Repeat(x, n) == [i \in 1..n |-> x]

NoPrior ==
    [types |-> <<>>, lowers |-> <<>>, uppers |-> <<>>, means |-> <<>>,
     widths |-> <<>>]

PriorAppend(p, type, lowers, uppers, means, widths) ==
    [types |-> p.types \o type, lowers |-> p.lowers \o lowers,
     uppers |-> p.uppers \o uppers, means |-> p.means \o means,
     widths |-> p.widths \o widths]

PriorConcat(p, q) ==
    PriorAppend(p, q.types, q.lowers, q.uppers, q.means, q.widths)

\* No profile refuses a gaussian prior.
rejects_gaussian_never(model) == FALSE

\* The profiles for which a gaussian prior is refused (line 215).
rejects_gaussian(model) == model \in {"PIXELATED"}

\* The loop over param_names in Parameters._set_params_prior (lines 186-222).
\* Line 188 indexes kwargs_profile[name] before line 189 tests for the name.
RECURSIVE set_params_prior_names(_, _, _, _, _, _)
set_params_prior_names(model, kwargs_profile, fixed, pn, j, p) ==
    IF j > Len(pn) THEN [err |-> "", p |-> p]
    ELSE LET name == pn[j] IN
         IF name \in DOMAIN fixed
         THEN set_params_prior_names(model, kwargs_profile, fixed, pn, j + 1, p)
         ELSE IF name \notin DOMAIN kwargs_profile
         THEN [err |-> "KeyError", p |-> NoPrior]
         ELSE LET prior_type == kwargs_profile[name].kind IN
         IF prior_type \notin {"uniform", "gaussian"}
         THEN set_params_prior_names(model, kwargs_profile, fixed, pn, j + 1,
                  PriorAppend(p, <<"None">>, <<NaN>>, <<NaN>>, <<NaN>>,
                              <<NaN>>))
         ELSE IF prior_type = "uniform"
         THEN IF model = "PIXELATED"
              THEN IF name \in {"x_coords", "y_coords"}
                   THEN [err |-> "ValueError", p |-> NoPrior]
                   ELSE IF "x_coords" \notin DOMAIN fixed
                           \/ "y_coords" \notin DOMAIN fixed
                           \/ "image" \notin DOMAIN kwargs_profile
                   THEN [err |-> "KeyError", p |-> NoPrior]
                   ELSE LET num_param == PyLen(fixed["x_coords"])
                                         * PyLen(fixed["y_coords"])
                        IN  set_params_prior_names(model, kwargs_profile,
                                fixed, pn, j + 1,
                                PriorAppend(p, Repeat(prior_type, num_param),
                                    Nums(Flatten(kwargs_profile["image"].p1)),
                                    Nums(Flatten(kwargs_profile["image"].p2)),
                                    Repeat(NaN, num_param),
                                    Repeat(NaN, num_param)))
              ELSE set_params_prior_names(model, kwargs_profile, fixed, pn,
                       j + 1,
                       PriorAppend(p, <<prior_type>>,
                           <<Num(kwargs_profile[name].p1.a[1][1])>>,
                           <<Num(kwargs_profile[name].p2.a[1][1])>>,
                           <<NaN>>, <<NaN>>))
         ELSE IF rejects_gaussian(model)
              THEN [err |-> "ValueError", p |-> NoPrior]
              ELSE set_params_prior_names(model, kwargs_profile, fixed, pn,
                       j + 1,
                       PriorAppend(p, <<prior_type>>, <<NaN>>, <<NaN>>,
                           <<Num(kwargs_profile[name].p1.a[1][1])>>,
                           <<Num(kwargs_profile[name].p2.a[1][1])>>))

RECURSIVE set_params_prior_profiles(_, _, _, _, _, _, _)
set_params_prior_profiles(km, kf, kwargs, kwargs_model_key, kwargs_key, k, p) ==
    IF k > Len(km[kwargs_model_key]) THEN [err |-> "", p |-> p]
    ELSE LET model == km[kwargs_model_key][k]
             pn == get_param_names_for_model(kwargs_key, model)
             r == set_params_prior_names(model, kwargs[kwargs_key][k],
                                         kf[kwargs_key][k], pn.names, 1, p)
         IN  IF pn.err # "" THEN [err |-> pn.err, p |-> NoPrior]
             ELSE IF r.err # "" THEN r
             ELSE set_params_prior_profiles(km, kf, kwargs, kwargs_model_key,
                                            kwargs_key, k + 1, r.p)

set_params_prior(km, kf, kwargs, kwargs_model_key, kwargs_key) ==
    set_params_prior_profiles(km, kf, kwargs, kwargs_model_key, kwargs_key, 1,
                              NoPrior)

kwargs2args_prior(km, kf, kwargs_prior_) ==
    LET m == set_params_prior(km, kf, kwargs_prior_, "lens_model_list",
                              "kwargs_lens")
        s == set_params_prior(km, kf, kwargs_prior_, "source_model_list",
                              "kwargs_source")
        l == set_params_prior(km, kf, kwargs_prior_, "lens_light_model_list",
                              "kwargs_lens_light")
    IN  IF m.err # "" THEN m
        ELSE IF s.err # "" THEN s
        ELSE IF l.err # "" THEN l
        ELSE [err |-> "", p |-> PriorConcat(PriorConcat(m.p, s.p), l.p)]

(***************************************************************************)
(* The log-prior.  Its value -pen * 1e10 + num / den is kept exact as the  *)
(* record [pen, num, den] (den > 0, num / den in lowest terms).            *)
(***************************************************************************)
RECURSIVE GCD(_, _)
GCD(a, b) == IF b = 0 THEN a ELSE GCD(b, a % b)
Abs(x) == IF x < 0 THEN -x ELSE x

LogPZero == [pen |-> 0, num |-> 0, den |-> 1]

\* logP + n / d, for d > 0.
AddRatio(logP, n, d) ==
    LET nn == logP.num * d + n * logP.den
        dd == logP.den * d
        g == GCD(Abs(nn), dd)
    IN  [pen |-> logP.pen, num |-> nn \div g, den |-> dd \div g]

\* logP - k * self._bound_penalty
AddPenalty(logP, k) == [logP EXCEPT !.pen = @ + k]

\* - 0.5 * ((x - mean) / width) ** 2 as the ratio <<n, d>>
GaussianTerm(x, mean, width) ==
    <<-((x - mean) * (x - mean)), 2 * width * width>>

\* One turn of the loop of Parameters.log_prior (lines 123-127): one
\* penalty for a value under the lower bound, one more for a value over
\* the upper bound.
log_prior_step(p, args, i, logP) ==
    LET gaussian_prior == p.types[i] = "gaussian"
        uniform_prior == p.types[i] = "uniform"
        g == GaussianTerm(args[i], p.means[i].v, p.widths[i].v)
        a == IF gaussian_prior THEN AddRatio(logP, g[1], g[2]) ELSE logP
        b == IF uniform_prior /\ args[i] < p.lowers[i].v
             THEN AddPenalty(a, 1) ELSE a
    IN  IF uniform_prior /\ args[i] > p.uppers[i].v
        THEN AddPenalty(b, 1) ELSE b

RECURSIVE log_prior_loop(_, _, _, _, _)
log_prior_loop(p, n, args, i, logP) ==
    IF i > n THEN [err |-> "", logP |-> logP]
    ELSE IF i > Len(p.types) THEN [err |-> "IndexError", logP |-> LogPZero]
    ELSE log_prior_loop(p, n, args, i + 1, log_prior_step(p, args, i, logP))

log_prior(p, n, args) == log_prior_loop(p, n, args, 1, LogPZero)

\* One turn of the loop of Parameters.log_prior_nojit (lines 133-136).
log_prior_nojit_step(p, args, i, logP) ==
    IF p.types[i] = "gaussian"
    THEN LET g == GaussianTerm(args[i], p.means[i].v, p.widths[i].v)
         IN  AddRatio(logP, g[1], g[2])
    ELSE IF p.types[i] = "uniform"
            /\ ~(p.lowers[i].v <= args[i] /\ args[i] <= p.uppers[i].v)
    THEN AddPenalty(logP, 1)
    ELSE logP

RECURSIVE log_prior_nojit_loop(_, _, _, _, _)
log_prior_nojit_loop(p, n, args, i, logP) ==
    IF i > n THEN [err |-> "", logP |-> logP]
    ELSE IF i > Len(p.types) THEN [err |-> "IndexError", logP |-> LogPZero]
    ELSE log_prior_nojit_loop(p, n, args, i + 1,
                              log_prior_nojit_step(p, args, i, logP))

log_prior_nojit(p, n, args) == log_prior_nojit_loop(p, n, args, 1, LogPZero)

(***************************************************************************)
(* The explored inputs: profiles with their fixed set, initial values and  *)
(* prior declaration, and the model specifications made of them.           *)
(***************************************************************************)
Range(f) == {f[x] : x \in DOMAIN f}
Pos(pn, name) == CHOOSE j \in 1..Len(pn) : pn[j] = name
Ramp(n, base, step) == [i \in 1..n |-> base + step * i]
RampImage(nx, ny, base, step) == Reshape(Ramp(nx * ny, base, step), nx, ny)
ConstImage(nx, ny, v) == Reshape(Repeat(v, nx * ny), nx, ny)
Opt(cond, key, val) == IF cond THEN key :> val ELSE <<>>
SeqsUpTo(S, n) == UNION {[1..m -> S] : m \in 0..n}

\* The flat vectors handed to the calls: constant, rising and falling ones,
\* all of whole values.
VecBases == {4}
VecSteps == {0, 2, -2}
Vectors(n) == {Ramp(n, b, st) : b \in VecBases, st \in VecSteps}

UniformEntry(lo, hi) == [kind |-> "uniform", p1 |-> lo, p2 |-> hi]
GaussianEntry(mean, width) == [kind |-> "gaussian", p1 |-> mean, p2 |-> width]
OtherEntry(kind) == [kind |-> kind, p1 |-> Scalar(0), p2 |-> Scalar(0)]

ScalarProfile(model, pn, F, priors) ==
    [model |-> model,
     fixed |-> [n \in F |-> Scalar(100 + Pos(pn, n))],
     init |-> [n \in Range(pn) |-> Scalar(2 * Pos(pn, n))],
     prior |-> priors]

UniformPriors(pn) ==
    [n \in Range(pn) |-> UniformEntry(Scalar(0), Scalar(2))]

\* The prior declaration of a PIXELATED profile: no entry ("missing"), or an
\* entry of the given kind with per-pixel arrays.
ImagePrior(kind, nx, ny) ==
    IF kind = "missing" THEN <<>>
    ELSE "image" :> [kind |-> kind, p1 |-> ConstImage(nx, ny, 0),
                     p2 |-> ConstImage(nx, ny, 2)]

\* A PIXELATED profile: x_coords of length xo and y_coords of length yo in the
\* fixed set (0: not fixed), the image fixed or free, and the kind of the image's prior.
PixelProfile(xo, yo, image_fixed, image_prior) ==
    LET nx == IF xo = 0 THEN 1 ELSE xo
        ny == IF yo = 0 THEN 1 ELSE yo
    IN  [model |-> "PIXELATED",
         fixed |-> Opt(xo > 0, "x_coords", Array1(Ramp(xo, 0, 1)))
                   @@ Opt(yo > 0, "y_coords", Array1(Ramp(yo, 0, 1)))
                   @@ Opt(image_fixed, "image", RampImage(nx, ny, 100, 1)),
         init |-> ("x_coords" :> Array1(Ramp(nx, 0, 1)))
                  @@ ("y_coords" :> Array1(Ramp(ny, 0, 1)))
                  @@ ("image" :> RampImage(nx, ny, 0, 2)),
         prior |-> ImagePrior(image_prior, nx, ny)]

UnknownProfile(model) ==
    [model |-> model, fixed |-> <<>>, init |-> <<>>, prior |-> <<>>]

MkConfig(l, s, ll) ==
    [km |-> [lens_model_list |-> [k \in 1..Len(l) |-> l[k].model],
             source_model_list |-> [k \in 1..Len(s) |-> s[k].model],
             lens_light_model_list |-> [k \in 1..Len(ll) |-> ll[k].model]],
     kf |-> [kwargs_lens |-> [k \in 1..Len(l) |-> l[k].fixed],
             kwargs_source |-> [k \in 1..Len(s) |-> s[k].fixed],
             kwargs_lens_light |-> [k \in 1..Len(ll) |-> ll[k].fixed]],
     ki |-> [kwargs_lens |-> [k \in 1..Len(l) |-> l[k].init],
             kwargs_source |-> [k \in 1..Len(s) |-> s[k].init],
             kwargs_lens_light |-> [k \in 1..Len(ll) |-> ll[k].init]],
     kp |-> [kwargs_lens |-> [k \in 1..Len(l) |-> l[k].prior],
             kwargs_source |-> [k \in 1..Len(s) |-> s[k].prior],
             kwargs_lens_light |-> [k \in 1..Len(ll) |-> ll[k].prior]]]

Configs(LensProfiles, LightProfiles) ==
    UNION {
        {MkConfig(l, s, ll) : l \in [1..n[1] -> LensProfiles],
                              s \in [1..n[2] -> LightProfiles],
                              ll \in [1..n[3] -> LightProfiles]} :
        n \in {m \in (0..MaxProfiles) \X (0..MaxProfiles) \X (0..MaxProfiles) :
                  m[1] + m[2] + m[3] <= MaxProfiles}}

Odd(pn) == {pn[j] : j \in {i \in 1..Len(pn) : i % 2 = 1}}
Even(pn) == {pn[j] : j \in {i \in 1..Len(pn) : i % 2 = 0}}

\* The grids of a PIXELATED profile: a square one and one that is not.
PixShapes == {<<MaxPix, MaxPix>>, <<MaxPix - 1, MaxPix>>}

\* The specifications explored for the codec: every identifier the codec
\* knows, with none, some or all of its parameters fixed, one identifier it
\* does not know per class, and valid uniform priors.
CodecLensProfiles ==
    {ScalarProfile("SIE", SIE_param_names, F, UniformPriors(SIE_param_names)) :
        F \in {{}, Odd(SIE_param_names)}}
    \cup {ScalarProfile("SHEAR", Shear_param_names, F,
                        UniformPriors(Shear_param_names)) :
            F \in {{}, Even(Shear_param_names), Range(Shear_param_names)}}
    \cup {ScalarProfile("SHEAR_GAMMA_PSI", Shear_param_names,
                        Odd(Shear_param_names),
                        UniformPriors(Shear_param_names)),
          ScalarProfile("SHEAR_GAMMA_PSI", ShearGammaPsi_param_names,
                        Odd(ShearGammaPsi_param_names),
                        UniformPriors(ShearGammaPsi_param_names))}
    \cup {UnknownProfile("SIS")}

CodecLightProfiles ==
    {ScalarProfile("GAUSSIAN", Gaussian_param_names, F,
                   UniformPriors(Gaussian_param_names)) :
        F \in {{}, Even(Gaussian_param_names)}}
    \cup {ScalarProfile("SERSIC", Sersic_param_names, F,
                        UniformPriors(Sersic_param_names)) :
            F \in {Odd(Sersic_param_names), Range(Sersic_param_names)}}
    \cup {PixelProfile(sh[1], sh[2], FALSE, "uniform") : sh \in PixShapes}
    \cup {PixelProfile(MaxPix, MaxPix, TRUE, "uniform"),
          PixelProfile(MaxPix, 0, FALSE, "uniform"),
          PixelProfile(0, MaxPix, FALSE, "uniform"),
          PixelProfile(0, 0, TRUE, "uniform")}
    \cup {UnknownProfile("UNIFORM")}

CodecConfigs == Configs(CodecLensProfiles, CodecLightProfiles)

(***************************************************************************)
(* The object and its operations.                                          *)
(***************************************************************************)
Unset(v) == [has |-> FALSE, val |-> v]
Set(v) == [has |-> TRUE, val |-> v]
NoRet == [op |-> "none"]

InitParameters ==
    /\ status = "new"
    /\ err = ""
    /\ kwargs_model = [lens_model_list |-> <<>>, source_model_list |-> <<>>,
                       lens_light_model_list |-> <<>>]
    /\ kwargs_init = NoKwargs
    /\ kwargs_prior = NoKwargs
    /\ kwargs_fixed = NoKwargs
    /\ init_values = <<>>
    /\ prior = NoPrior
    /\ num_params = 0
    /\ names_cache = Unset(<<>>)
    /\ ml_values = Unset(<<>>)
    /\ kwargs_ml = Unset(NoKwargs)
    /\ map_values = Unset(<<>>)
    /\ kwargs_map = Unset(NoKwargs)
    /\ last_fit = Unset(<<>>)
    /\ last_samples = Unset(<<>>)
    /\ ret = NoRet

\* Before any composite, LensImage or convolution object is built, and
\* before any call of the two routines.
New == [status |-> "new"]
InitComposite == composite = New /\ composite_ret = NoRet
InitLensImage == lens_image = New /\ lens_image_ret = NoRet
InitConv == conv = New /\ conv_ret = NoRet
InitInterpol == interpol_in = New /\ interpol_ret = NoRet
InitReparam == reparam_in = New /\ reparam_ret = NoRet

Init ==
    /\ InitParameters
    /\ InitComposite
    /\ InitLensImage
    /\ InitConv
    /\ InitInterpol
    /\ InitReparam

\* Parameters.__init__ (lines 21-31): kwargs2args of the initial values, then
\* the prior metadata; the first exception ends the construction.
init_result(km, ki, kp, kf) ==
    LET iv == kwargs2args(km, kf, ki)
        pr == kwargs2args_prior(km, kf, kp)
    IN  IF iv.err # "" THEN [err |-> iv.err, args |-> <<>>, p |-> NoPrior]
        ELSE IF pr.err # "" THEN [err |-> pr.err, args |-> <<>>, p |-> NoPrior]
        ELSE [err |-> "", args |-> iv.args, p |-> pr.p]

Construct(c) ==
    /\ status = "new"
    /\ kwargs_model' = c.km
    /\ kwargs_init' = c.ki
    /\ kwargs_prior' = c.kp
    /\ kwargs_fixed' = c.kf
    /\ LET r == init_result(c.km, c.ki, c.kp, c.kf)
       IN  /\ status' = IF r.err = "" THEN "built" ELSE "failed"
           /\ err' = r.err
           /\ init_values' = r.args
           /\ prior' = r.p
           /\ num_params' = Len(r.args)
    /\ ret' = [op |-> "__init__"]
    /\ UNCHANGED <<outside, names_cache, ml_values, kwargs_ml, map_values, kwargs_map,
                   last_fit, last_samples>>

ConstructCodec == \E c \in CodecConfigs : Construct(c)

\* A call of args2kwargs.  The method reads only _kwargs_model and
\* _kwargs_fixed, so it is also applied to a configuration that __init__
\* rejected, with a vector long enough for every slot it can ask for.
ProbeLen == MaxProfiles * (MaxPix * MaxPix + Len(Sersic_param_names))

Args2Kwargs ==
    /\ status \in {"built", "failed"}
    /\ \E args \in IF status = "built" THEN Vectors(num_params)
                   ELSE Vectors(ProbeLen) :
          ret' = [op |-> "args2kwargs", args |-> args,
                  out |-> args2kwargs(kwargs_model, kwargs_fixed, args)]
    /\ UNCHANGED <<outside, status, err, kwargs_model, kwargs_init, kwargs_prior,
                   kwargs_fixed, init_values, prior, num_params, names_cache,
                   ml_values, kwargs_ml, map_values, kwargs_map, last_fit,
                   last_samples>>

\* A call of kwargs2args on the kwargs the latest args2kwargs returned.
Kwargs2Args ==
    /\ status = "built"
    /\ ret.op = "args2kwargs"
    /\ ret.out.err = ""
    /\ ret' = [op |-> "kwargs2args", kwargs |-> ret.out.kwargs,
               from |-> ret.args,
               out |-> kwargs2args(kwargs_model, kwargs_fixed, ret.out.kwargs)]
    /\ UNCHANGED <<outside, status, err, kwargs_model, kwargs_init, kwargs_prior,
                   kwargs_fixed, init_values, prior, num_params, names_cache,
                   ml_values, kwargs_ml, map_values, kwargs_map, last_fit,
                   last_samples>>

\* A read of the names property (lines 48-54).
names_value(cache, km, kf) ==
    IF cache.has THEN cache.val ELSE compute_names(km, kf).names

ReadNames ==
    /\ status = "built"
    /\ names_cache' = Set(names_value(names_cache, kwargs_model, kwargs_fixed))
    /\ ret' = [op |-> "names",
               out |-> names_value(names_cache, kwargs_model, kwargs_fixed)]
    /\ UNCHANGED <<outside, status, err, kwargs_model, kwargs_init, kwargs_prior,
                   kwargs_fixed, init_values, prior, num_params, ml_values,
                   kwargs_ml, map_values, kwargs_map, last_fit, last_samples>>

Next == ConstructCodec \/ Args2Kwargs \/ Kwargs2Args \/ ReadNames

Spec == Init /\ [][Next]_vars

(***************************************************************************)
(* The layout of the flat vector, stated on its own: the parameters in     *)
(* the order class, profile, name, each free one taking its slots.         *)
(***************************************************************************)
CodecNames(km, c, k) ==
    get_param_names_for_model(KwargsKeys[c], km[ModelKeys[c]][k]).names

Items(km) ==
    UNION {UNION {{<<c, k, j>> : j \in 1..Len(CodecNames(km, c, k))} :
                     k \in 1..Len(km[ModelKeys[c]])} : c \in 1..3}

ItemName(km, it) == CodecNames(km, it[1], it[2])[it[3]]
ItemFixed(kf, it) == kf[KwargsKeys[it[1]]][it[2]]
ItemIsFree(km, kf, it) == ItemName(km, it) \notin DOMAIN ItemFixed(kf, it)
ItemIsPixel(km, it) == km[ModelKeys[it[1]]][it[2]] = "PIXELATED"

Before(a, b) ==
    \/ a[1] < b[1]
    \/ a[1] = b[1] /\ a[2] < b[2]
    \/ a[1] = b[1] /\ a[2] = b[2] /\ a[3] < b[3]

ItemSize(km, kf, it) ==
    IF ~ItemIsFree(km, kf, it) THEN 0
    ELSE IF ItemIsPixel(km, it)
    THEN PyLen(ItemFixed(kf, it)["x_coords"]) * PyLen(ItemFixed(kf, it)["y_coords"])
    ELSE 1

RECURSIVE SumSizes(_, _, _)
SumSizes(km, kf, S) ==
    IF S = {} THEN 0
    ELSE LET it == CHOOSE x \in S : TRUE
         IN  ItemSize(km, kf, it) + SumSizes(km, kf, S \ {it})

Offset(km, kf, it) == SumSizes(km, kf, {b \in Items(km) : Before(b, it)})
TotalSize(km, kf) == SumSizes(km, kf, Items(km))

FreeItems(km, kf) == {it \in Items(km) : ItemIsFree(km, kf, it)}
HasFreeImage(km, kf) ==
    \E it \in FreeItems(km, kf) : ItemIsPixel(km, it) /\ ItemSize(km, kf, it) > 1

\* The value the flat vector v holds for the free parameter it.
Stored(km, kf, it, v, val) ==
    LET off == Offset(km, kf, it) IN
    IF ItemIsPixel(km, it)
    THEN LET nx == PyLen(ItemFixed(kf, it)["x_coords"])
             ny == PyLen(ItemFixed(kf, it)["y_coords"])
         IN  /\ Len(val.a) = nx
             /\ \A r \in 1..nx :
                  /\ Len(val.a[r]) = ny
                  /\ \A cc \in 1..ny : val.a[r][cc] = v[off + (r - 1) * ny + cc]
    ELSE val = Scalar(v[off + 1])

(***************************************************************************)
(* C1.  Round trip: encoding the kwargs that args2kwargs decoded from a    *)
(* flat vector of length num_parameters gives that vector back, element    *)
(* for element, pixel blocks included.                                     *)
(***************************************************************************)
C1_RoundTrip ==
    ret.op = "kwargs2args" =>
        /\ ret.out.err = ""
        /\ ret.out.args = ret.from

C1_Witness ==
    /\ ret.op = "kwargs2args"
    /\ HasFreeImage(kwargs_model, kwargs_fixed)
    /\ kwargs_model.lens_model_list # <<>>
    /\ num_params > MaxPix * MaxPix
    /\ ret.from[1] # ret.from[2]
    /\ ret.out.args = ret.from

(***************************************************************************)
(* C2.  Decoding and encoding use one layout: lens, then source, then      *)
(* lens-light profiles, each class in list order, each profile in          *)
(* param_names order.  A fixed parameter is copied from the fixed set and  *)
(* takes no slot; a free parameter is read from (decode) and written to    *)
(* (encode) its consecutive slots; decoding consumes num_parameters slots. *)
(***************************************************************************)
C2_Layout ==
    status = "built" =>
        /\ num_params = TotalSize(kwargs_model, kwargs_fixed)
        /\ \A it \in FreeItems(kwargs_model, kwargs_fixed) :
             Stored(kwargs_model, kwargs_fixed, it, init_values,
                    kwargs_init[KwargsKeys[it[1]]][it[2]]
                        [IF ItemIsPixel(kwargs_model, it) THEN "image"
                         ELSE ItemName(kwargs_model, it)])
        /\ ret.op = "args2kwargs" =>
             /\ ret.out.err = ""
             /\ ret.out.i = num_params
             /\ \A c \in 1..3 :
                  Len(ret.out.kwargs[KwargsKeys[c]])
                      = Len(kwargs_model[ModelKeys[c]])
             /\ \A it \in Items(kwargs_model) :
                  LET name == ItemName(kwargs_model, it)
                      d == ret.out.kwargs[KwargsKeys[it[1]]][it[2]]
                  IN  IF ItemIsFree(kwargs_model, kwargs_fixed, it)
                      THEN LET key == IF ItemIsPixel(kwargs_model, it)
                                      THEN "image" ELSE name
                           IN  /\ key \in DOMAIN d
                               /\ Stored(kwargs_model, kwargs_fixed, it,
                                         ret.args, d[key])
                      ELSE /\ name \in DOMAIN d
                           /\ d[name] = ItemFixed(kwargs_fixed, it)[name]

C2_Witness ==
    /\ status = "built"
    /\ ret.op = "args2kwargs"
    /\ Len(kwargs_model.lens_model_list) = 1
    /\ Len(kwargs_model.source_model_list) = 1
    /\ HasFreeImage(kwargs_model, kwargs_fixed)
    /\ \E it \in Items(kwargs_model) :
         /\ it[1] = 1
         /\ ~ItemIsFree(kwargs_model, kwargs_fixed, it)
    /\ \E it \in FreeItems(kwargs_model, kwargs_fixed) : it[1] = 1
    /\ ret.args[1] # ret.args[2]

(***************************************************************************)
(* C3.  The labels: names has one label per slot of the flat vector, the   *)
(* label at index j is the name of the parameter stored there (a_0, a_1,   *)
(* ... for a pixel block), and a later read returns the same sequence, the *)
(* one a fresh computation from the same specification gives.              *)
(***************************************************************************)
C3_Names ==
    names_cache.has =>
        /\ Len(names_cache.val) = num_params
        /\ names_cache.val = compute_names(kwargs_model, kwargs_fixed).names
        /\ ret.op = "names" => ret.out = names_cache.val
        /\ \A it \in FreeItems(kwargs_model, kwargs_fixed) :
             LET off == Offset(kwargs_model, kwargs_fixed, it) IN
             IF ItemIsPixel(kwargs_model, it)
             THEN \A q \in 1..ItemSize(kwargs_model, kwargs_fixed, it) :
                     names_cache.val[off + q] = "a_" \o ToString(q - 1)
             ELSE names_cache.val[off + 1] = ItemName(kwargs_model, it)

C3_Witness ==
    /\ names_cache.has
    /\ ret.op = "names"
    /\ HasFreeImage(kwargs_model, kwargs_fixed)
    /\ kwargs_model.lens_model_list # <<>>
    /\ num_params > MaxPix * MaxPix
    /\ Len(names_cache.val) = num_params

(***************************************************************************)
(* The estimates and their cached structured views.                        *)
(***************************************************************************)
RECURSIVE Sorted(_)
Sorted(s) ==
    IF s = <<>> THEN <<>>
    ELSE LET m == CHOOSE i \in DOMAIN s : \A j \in DOMAIN s : s[i] <= s[j]
         IN  <<s[m]>> \o Sorted([i \in 1..(Len(s) - 1) |->
                                     IF i < m THEN s[i] ELSE s[i + 1]])

\* numpy.median of a 1-D sequence: the middle value, or the mean of the two
\* middle values (exact here: the samples are whole numbers, counted in
\* halves).
Median1(col) ==
    LET t == Sorted(col)
        n == Len(col)
    IN  IF n % 2 = 1 THEN t[(n + 1) \div 2]
        ELSE (t[n \div 2] + t[n \div 2 + 1]) \div 2

\* numpy.median(samples, axis=0): per column of the rows in samples.
Median(samples, n) ==
    [q \in 1..n |-> Median1([r \in 1..Len(samples) |-> samples[r][q]])]

\* The view is kept when the estimate is replaced.
kept_view(view) == view

\* delattr of the cached kwargs view, when it is set (lines 85-86, 90-91).
cleared_view(view) == Unset(NoKwargs)

\* Parameters.set_best_fit (lines 83-86).
SetBestFit ==
    /\ status = "built"
    /\ \E args \in Vectors(num_params) :
         /\ ml_values' = Set(args)
         /\ last_fit' = Set(args)
    /\ kwargs_ml' = cleared_view(kwargs_ml)
    /\ ret' = [op |-> "set_best_fit"]
    /\ UNCHANGED <<outside, status, err, kwargs_model, kwargs_init, kwargs_prior,
                   kwargs_fixed, init_values, prior, num_params, names_cache,
                   map_values, kwargs_map, last_samples>>

\* Parameters.set_samples (lines 88-91).
SetSamples ==
    /\ status = "built"
    /\ \E m \in 1..MaxSamples :
         \E samples \in [1..m -> Vectors(num_params)] :
            /\ map_values' = Set(Median(samples, num_params))
            /\ last_samples' = Set(samples)
    /\ kwargs_map' = cleared_view(kwargs_map)
    /\ ret' = [op |-> "set_samples"]
    /\ UNCHANGED <<outside, status, err, kwargs_model, kwargs_init, kwargs_prior,
                   kwargs_fixed, init_values, prior, num_params, names_cache,
                   ml_values, kwargs_ml, last_fit>>

\* The view after ML_values / MAP_values (lines 73-74, 79-80): decoded from
\* the flat estimate when it is not set and kwargs are asked for.
view_after(view, values, as_kwargs, km, kf) ==
    IF ~view.has /\ as_kwargs
    THEN Set(args2kwargs(km, kf, values.val).kwargs)
    ELSE view

\* What ML_values / MAP_values return (lines 75, 81); reading an estimate
\* that was never set raises AttributeError.
values_result(view, values, as_kwargs, km, kf) ==
    IF ~values.has
    THEN [err |-> "AttributeError", kw |-> NoKwargs, vec |-> <<>>]
    ELSE IF as_kwargs
    THEN [err |-> "", kw |-> view_after(view, values, as_kwargs, km, kf).val,
          vec |-> <<>>]
    ELSE [err |-> "", kw |-> NoKwargs, vec |-> values.val]

ML_values(op, as_kwargs) ==
    /\ status = "built"
    /\ kwargs_ml' = IF ml_values.has
                    THEN view_after(kwargs_ml, ml_values, as_kwargs,
                                    kwargs_model, kwargs_fixed)
                    ELSE kwargs_ml
    /\ ret' = [op |-> op, as_kwargs |-> as_kwargs,
               out |-> values_result(kwargs_ml, ml_values, as_kwargs,
                                     kwargs_model, kwargs_fixed)]
    /\ UNCHANGED <<outside, status, err, kwargs_model, kwargs_init, kwargs_prior,
                   kwargs_fixed, init_values, prior, num_params, names_cache,
                   ml_values, map_values, kwargs_map, last_fit, last_samples>>

MLValues == \E as_kwargs \in BOOLEAN : ML_values("ML_values", as_kwargs)

\* Parameters.best_fit_values (lines 67-69) forwards to ML_values.
BestFitValues ==
    \E as_kwargs \in BOOLEAN : ML_values("best_fit_values", as_kwargs)

MAPValues ==
    /\ status = "built"
    /\ \E as_kwargs \in BOOLEAN :
         /\ kwargs_map' = IF map_values.has
                          THEN view_after(kwargs_map, map_values, as_kwargs,
                                          kwargs_model, kwargs_fixed)
                          ELSE kwargs_map
         /\ ret' = [op |-> "MAP_values", as_kwargs |-> as_kwargs,
                    out |-> values_result(kwargs_map, map_values, as_kwargs,
                                          kwargs_model, kwargs_fixed)]
    /\ UNCHANGED <<outside, status, err, kwargs_model, kwargs_init, kwargs_prior,
                   kwargs_fixed, init_values, prior, num_params, names_cache,
                   ml_values, kwargs_ml, map_values, last_fit, last_samples>>

\* The best-fit estimate is read whatever original says.
reads_best_fit_always(ml, original) == ml.has

\* hasattr(self, '_ml_values') and original is False (line 63).
reads_best_fit(ml, original) == ml.has /\ ~original

\* Parameters.initial_values (lines 62-65).
InitialValues ==
    /\ status = "built"
    /\ \E as_kwargs, original \in BOOLEAN :
         IF reads_best_fit(ml_values, original)
         THEN /\ kwargs_ml' = view_after(kwargs_ml, ml_values, as_kwargs,
                                         kwargs_model, kwargs_fixed)
              /\ ret' = [op |-> "initial_values", as_kwargs |-> as_kwargs,
                         original |-> original,
                         out |-> values_result(kwargs_ml, ml_values, as_kwargs,
                                               kwargs_model, kwargs_fixed)]
         ELSE /\ kwargs_ml' = kwargs_ml
              /\ ret' = [op |-> "initial_values", as_kwargs |-> as_kwargs,
                         original |-> original,
                         out |-> [err |-> "",
                                  kw |-> IF as_kwargs THEN kwargs_init
                                         ELSE NoKwargs,
                                  vec |-> IF as_kwargs THEN <<>>
                                          ELSE init_values]]
    /\ UNCHANGED <<outside, status, err, kwargs_model, kwargs_init, kwargs_prior,
                   kwargs_fixed, init_values, prior, num_params, names_cache,
                   ml_values, map_values, kwargs_map, last_fit, last_samples>>

\* The specifications explored for the estimates: a lens profile with two
\* free parameters and a source with a free pixel grid, each present or not.
CacheConfigs ==
    {MkConfig(l, s, <<>>) :
        l \in {<<>>, <<ScalarProfile("SHEAR", Shear_param_names,
                                     Even(Shear_param_names),
                                     UniformPriors(Shear_param_names))>>},
        s \in {<<>>, <<PixelProfile(MaxPix - 1, MaxPix, FALSE, "uniform")>>}}

ConstructCache == \E c \in CacheConfigs : Construct(c)

NextCache ==
    \/ ConstructCache
    \/ SetBestFit
    \/ SetSamples
    \/ MLValues
    \/ BestFitValues
    \/ MAPValues
    \/ InitialValues

SpecCache == Init /\ [][NextCache]_vars

(***************************************************************************)
(* C7.  No stale structured view: after any sequence of set_best_fit,      *)
(* set_samples, ML_values, MAP_values and best_fit_values calls, the       *)
(* kwargs that ML_values / best_fit_values return are the decoding of the  *)
(* vector given to the latest set_best_fit, and the kwargs that MAP_values *)
(* returns are the decoding of the median of the latest set_samples; a     *)
(* cached view is never that of an older estimate.                         *)
(***************************************************************************)
C7_FreshViews ==
    /\ kwargs_ml.has =>
         /\ last_fit.has
         /\ kwargs_ml.val
              = args2kwargs(kwargs_model, kwargs_fixed, last_fit.val).kwargs
    /\ kwargs_map.has =>
         /\ last_samples.has
         /\ kwargs_map.val
              = args2kwargs(kwargs_model, kwargs_fixed,
                            Median(last_samples.val, num_params)).kwargs
    /\ (ret.op \in {"ML_values", "best_fit_values"} /\ ret.as_kwargs
        /\ last_fit.has) =>
         /\ ret.out.err = ""
         /\ ret.out.kw
              = args2kwargs(kwargs_model, kwargs_fixed, last_fit.val).kwargs
    /\ (ret.op = "MAP_values" /\ ret.as_kwargs /\ last_samples.has) =>
         /\ ret.out.err = ""
         /\ ret.out.kw
              = args2kwargs(kwargs_model, kwargs_fixed,
                            Median(last_samples.val, num_params)).kwargs

\* A second estimate was set after a view of the first had been cached, and
\* the view then returned is that of the second.
C7_Witness ==
    /\ ret.op = "MAP_values"
    /\ ret.as_kwargs
    /\ ret.out.err = ""
    /\ num_params > MaxPix
    /\ kwargs_ml.has
    /\ kwargs_map.has
    /\ Len(last_samples.val) = MaxSamples
    /\ last_samples.val[1] # last_samples.val[MaxSamples]
    /\ map_values.val # last_fit.val
    /\ map_values.val # last_samples.val[1]

(***************************************************************************)
(* What a model specification asks of the codec.                           *)
(***************************************************************************)
Profiles(km) ==
    UNION {{<<c, k>> : k \in 1..Len(km[ModelKeys[c]])} : c \in 1..3}

IsKnown(km, pr) ==
    get_param_names_for_model(KwargsKeys[pr[1]],
                              km[ModelKeys[pr[1]]][pr[2]]).err = ""

\* A PIXELATED profile of a class in which the codec knows PIXELATED, with
\* x_coords or y_coords missing from its fixed set.
LacksCoords(km, kf, pr) ==
    /\ IsKnown(km, pr)
    /\ km[ModelKeys[pr[1]]][pr[2]] = "PIXELATED"
    /\ ~({"x_coords", "y_coords"} \subseteq DOMAIN kf[KwargsKeys[pr[1]]][pr[2]])

\* A profile the encoder gets through: a known identifier, a value for every
\* free parameter, fixed grid geometry.
Encodable(km, kf, kwargs, pr) ==
    /\ IsKnown(km, pr)
    /\ ~LacksCoords(km, kf, pr)
    /\ \A j \in 1..Len(CodecNames(km, pr[1], pr[2])) :
         LET it == <<pr[1], pr[2], j>> IN
         ItemIsFree(km, kf, it) =>
            (IF ItemIsPixel(km, it) THEN "image" ELSE ItemName(km, it))
                \in DOMAIN kwargs[KwargsKeys[pr[1]]][pr[2]]

ProfileBefore(a, b) == a[1] < b[1] \/ (a[1] = b[1] /\ a[2] < b[2])

(***************************************************************************)
(* C8.  A PIXELATED profile whose fixed set lacks x_coords or y_coords is  *)
(* refused: construction (which encodes the initial values) never          *)
(* succeeds and decoding never returns kwargs; when the profiles before it *)
(* are in order, the exception is the ValueError of that profile, both     *)
(* from the encoder and from the decoder, and no flat vector is stored.    *)
(***************************************************************************)
C8_CoordsMustBeFixed ==
    \A pr \in Profiles(kwargs_model) :
        (status # "new" /\ LacksCoords(kwargs_model, kwargs_fixed, pr)) =>
            /\ status = "failed"
            /\ init_values = <<>>
            /\ ret.op = "args2kwargs" =>
                 /\ ret.out.err # ""
                 /\ ret.out.kwargs = NoKwargs
            /\ (\A q \in Profiles(kwargs_model) :
                   ProfileBefore(q, pr) =>
                      Encodable(kwargs_model, kwargs_fixed, kwargs_init, q)) =>
                 /\ err = "ValueError"
                 /\ ret.op = "args2kwargs" => ret.out.err = "ValueError"

C8_Witness ==
    /\ status = "failed"
    /\ err = "ValueError"
    /\ ret.op = "args2kwargs"
    /\ ret.out.err = "ValueError"
    /\ Len(kwargs_model.lens_model_list) = 1
    /\ Len(kwargs_model.source_model_list) = 1
    /\ LacksCoords(kwargs_model, kwargs_fixed, <<2, 1>>)
    /\ "x_coords" \in DOMAIN kwargs_fixed.kwargs_source[1]

(***************************************************************************)
(* C9.  A profile identifier the codec does not know makes construction    *)
(* fail with the dedicated UnknownProfileError (stated for specifications  *)
(* whose other profiles are in order).                                     *)
(***************************************************************************)
C9_UnknownProfileError ==
    (/\ status # "new"
     /\ \E pr \in Profiles(kwargs_model) : ~IsKnown(kwargs_model, pr)
     /\ \A pr \in Profiles(kwargs_model) :
          IsKnown(kwargs_model, pr) =>
             Encodable(kwargs_model, kwargs_fixed, kwargs_init, pr)) =>
        /\ status = "failed"
        /\ err = "UnknownProfileError"

(***************************************************************************)
(* The prior declarations explored, and the log-prior calls.               *)
(***************************************************************************)
\* What a declaration may say of a scalar parameter: nothing (no entry), no
\* prior, a kind the code does not know, bounds [0, 1], bounds given the
\* wrong way round, a gaussian of mean 0 and width 1 or 2.
ScalarEntries ==
    {OtherEntry("none"), OtherEntry("loguniform"),
     UniformEntry(Scalar(0), Scalar(2)), UniformEntry(Scalar(2), Scalar(0)),
     GaussianEntry(Scalar(0), Scalar(2)), GaussianEntry(Scalar(0), Scalar(4))}

PriorDicts(free) ==
    UNION {[D -> ScalarEntries] : D \in SUBSET free}

ImagePriorKinds == {"missing", "none", "loguniform", "uniform", "gaussian"}

PriorLensProfiles ==
    {ScalarProfile("SHEAR", Shear_param_names, F, pd) :
        F \in {Range(Shear_param_names) \ {"gamma1"}},
        pd \in PriorDicts({"gamma1"})}
    \cup {ScalarProfile("SHEAR", Shear_param_names, Even(Shear_param_names),
                        pd) : pd \in PriorDicts(Odd(Shear_param_names))}

PriorConfigs ==
    {MkConfig(l, s, <<>>) :
        l \in {<<>>} \cup {<<x>> : x \in PriorLensProfiles},
        s \in {<<>>} \cup {<<PixelProfile(MaxPix - 1, MaxPix, FALSE, kind)>> :
                              kind \in ImagePriorKinds}}

ConstructPrior == \E c \in PriorConfigs : Construct(c)

\* The vectors scored: under, on, inside, on and over the bounds [0, 1],
\* the same in every slot or changing from slot to slot.
PriorBases == {-2, 0, 1, 2, 4}
PriorSteps == {0, 1, -1}
PriorArgs(n) == {Ramp(n, b - st, st) : b \in PriorBases, st \in PriorSteps}

LogPrior ==
    /\ status = "built"
    /\ \E args \in PriorArgs(num_params) :
         ret' = [op |-> "log_prior", args |-> args,
                 out |-> log_prior(prior, num_params, args)]
    /\ UNCHANGED <<outside, status, err, kwargs_model, kwargs_init, kwargs_prior,
                   kwargs_fixed, init_values, prior, num_params, names_cache,
                   ml_values, kwargs_ml, map_values, kwargs_map, last_fit,
                   last_samples>>

LogPriorNojit ==
    /\ status = "built"
    /\ \E args \in PriorArgs(num_params) :
         ret' = [op |-> "log_prior_nojit", args |-> args,
                 out |-> log_prior_nojit(prior, num_params, args)]
    /\ UNCHANGED <<outside, status, err, kwargs_model, kwargs_init, kwargs_prior,
                   kwargs_fixed, init_values, prior, num_params, names_cache,
                   ml_values, kwargs_ml, map_values, kwargs_map, last_fit,
                   last_samples>>

NextPrior == ConstructPrior \/ LogPrior \/ LogPriorNojit

SpecPrior == Init /\ [][NextPrior]_vars

(***************************************************************************)
(* Claims on the prior metadata and the log-prior.                         *)
(***************************************************************************)
\* What the prior declaration says of the parameter it.
Declared(km, kp, it) == kp[KwargsKeys[it[1]]][it[2]]
HasEntry(km, kp, it) == ItemName(km, it) \in DOMAIN Declared(km, kp, it)
EntryOf(km, kp, it) == Declared(km, kp, it)[ItemName(km, it)]
HasKind(km, kp, it, kinds) ==
    HasEntry(km, kp, it) /\ EntryOf(km, kp, it).kind \in kinds
NoPriorDeclared(km, kp, it) ==
    ~HasEntry(km, kp, it) \/ HasKind(km, kp, it, {"none"})

\* The entry the metadata should hold for slot d of the free parameter it.
ExpectedEntry(km, kp, it, d) ==
    LET e == EntryOf(km, kp, it) IN
    IF NoPriorDeclared(km, kp, it)
    THEN <<"None", NaN, NaN, NaN, NaN>>
    ELSE IF e.kind = "uniform"
    THEN <<"uniform", Num(Flatten(e.p1)[d]), Num(Flatten(e.p2)[d]), NaN, NaN>>
    ELSE <<e.kind, NaN, NaN, Num(Flatten(e.p1)[d]), Num(Flatten(e.p2)[d])>>

EntryAt(p, j) == <<p.types[j], p.lowers[j], p.uppers[j], p.means[j], p.widths[j]>>

\* C4: when every free parameter has a uniform prior, a gaussian prior (not
\* on a PIXELATED profile), no prior or no entry in the declaration,
\* construction succeeds, the five metadata arrays are as long as the flat
\* vector, and entry j describes the parameter at index j: kind None and NaN
\* sentinels for a parameter without prior, one such entry per pixel for a
\* free PIXELATED image.
C4_PriorAligned ==
    LET km == kwargs_model
        kf == kwargs_fixed
        kp == kwargs_prior
    IN  (/\ status # "new"
         /\ \A it \in FreeItems(km, kf) :
              \/ NoPriorDeclared(km, kp, it)
              \/ HasKind(km, kp, it, {"uniform"})
              \/ HasKind(km, kp, it, {"gaussian"}) /\ ~ItemIsPixel(km, it))
        => /\ status = "built"
           /\ num_params = TotalSize(km, kf)
           /\ Len(prior.types) = num_params
           /\ Len(prior.lowers) = num_params
           /\ Len(prior.uppers) = num_params
           /\ Len(prior.means) = num_params
           /\ Len(prior.widths) = num_params
           /\ \A it \in FreeItems(km, kf) :
                \A d \in 1..ItemSize(km, kf, it) :
                  EntryAt(prior, Offset(km, kf, it) + d)
                      = ExpectedEntry(km, kp, it, d)

\* The sum the log-prior is said to be, over the first i entries.
RECURSIVE ClaimedLogPrior(_, _, _)
ClaimedLogPrior(p, args, i) ==
    IF i = 0 THEN LogPZero
    ELSE LET rest == ClaimedLogPrior(p, args, i - 1)
             g == GaussianTerm(args[i], p.means[i].v, p.widths[i].v)
         IN  IF p.types[i] = "gaussian" THEN AddRatio(rest, g[1], g[2])
             ELSE IF p.types[i] = "uniform"
                     /\ (args[i] < p.lowers[i].v \/ args[i] > p.uppers[i].v)
             THEN AddPenalty(rest, 1)
             ELSE rest

\* C5: with metadata as long as the flat vector, log_prior(args) is the sum
\* over the indices i of -0.5*((args[i]-mean[i])/width[i])^2 for a gaussian
\* entry, of one penalty -1e10 for a uniform entry whose value lies outside
\* [lower[i], upper[i]], and of 0 otherwise.
C5_LogPriorSum ==
    (/\ ret.op = "log_prior"
     /\ Len(prior.types) = num_params)
    => /\ ret.out.err = ""
       /\ ret.out.logP = ClaimedLogPrior(prior, ret.args, num_params)

\* C6: for every object and every flat vector, log_prior_nojit(args) and
\* log_prior(args) are equal, bounds given the wrong way round included.
C6_NojitAgrees ==
    ret.op \in {"log_prior", "log_prior_nojit"}
    => log_prior_nojit(prior, num_params, ret.args)
         = log_prior(prior, num_params, ret.args)

\* The free parameters the traversal of the declaration stops at.
Unsupported(km, kf, kp) ==
    {it \in FreeItems(km, kf) :
        HasEntry(km, kp, it)
        /\ EntryOf(km, kp, it).kind \notin {"none", "uniform", "gaussian"}}
GaussianPixels(km, kf, kp) ==
    {it \in FreeItems(km, kf) :
        ItemIsPixel(km, it) /\ HasKind(km, kp, it, {"gaussian"})}
Missing(km, kf, kp) == {it \in FreeItems(km, kf) : ~HasEntry(km, kp, it)}

\* C10 as first stated: construction fails with a validation error when a
\* free parameter is given a prior kind other than uniform and gaussian,
\* and when a parameter of a PIXELATED profile is given a gaussian prior.
C10_UnsupportedKindRaises ==
    LET km == kwargs_model
        kf == kwargs_fixed
        kp == kwargs_prior
    IN  (/\ status # "new"
         /\ Unsupported(km, kf, kp) \cup GaussianPixels(km, kf, kp) # {})
        => status = "failed" /\ err = "ValueError"

\* C10: a gaussian prior on a free parameter of a PIXELATED profile makes
\* construction fail, with ValueError unless a free parameter met earlier
\* has no entry in the declaration (KeyError then).  A kind other than
\* uniform and gaussian raises nothing: when every free parameter has an
\* entry and no PIXELATED parameter has a gaussian prior, construction
\* succeeds, and a scalar parameter of such a kind, met before any free
\* PIXELATED image, is recorded with kind None and NaN sentinels.
C10_PriorKindErrors ==
    LET km == kwargs_model
        kf == kwargs_fixed
        kp == kwargs_prior
        gp == GaussianPixels(km, kf, kp)
        missing == Missing(km, kf, kp)
    IN  status # "new" =>
        /\ gp # {} =>
             /\ status = "failed"
             /\ err = IF \E m \in missing : \A g \in gp : Before(m, g)
                      THEN "KeyError" ELSE "ValueError"
        /\ (gp = {} /\ missing = {}) =>
             /\ status = "built"
             /\ \A it \in Unsupported(km, kf, kp) :
                  (/\ ~ItemIsPixel(km, it)
                   /\ \A b \in FreeItems(km, kf) :
                        Before(b, it) => ~ItemIsPixel(km, b))
                  => EntryAt(prior, Offset(km, kf, it) + 1)
                       = <<"None", NaN, NaN, NaN, NaN>>

\* A declaration with an unknown kind on a lens parameter and a gaussian
\* prior on the free PIXELATED image: the first passes, the second raises.
C10_Witness ==
    LET km == kwargs_model
        kf == kwargs_fixed
        kp == kwargs_prior
    IN  /\ status = "failed"
        /\ err = "ValueError"
        /\ GaussianPixels(km, kf, kp) # {}
        /\ \E it \in Unsupported(km, kf, kp) :
             \A g \in GaussianPixels(km, kf, kp) : Before(it, g)

(***************************************************************************)
(* The model composers: herculens/MassModel/mass_model_base.py             *)
(* (MassModelBase) and jaxtronomy/LightModel/light_model_base.py           *)
(* (LightModelBase).  A profile instance is the record [cls, id]: its      *)
(* class and its identity, the rank of its creation.                       *)
(***************************************************************************)
MaxList == 3

NoError == [kind |-> "", arg |-> ""]
ValueErrorOn(arg) == [kind |-> "ValueError", arg |-> arg]

\* Every identifier is taken for one the composer knows.
import_class_lenient(lens_type, kwargs_pixel_grid_fixed) ==
    [err |-> NoError, cls |-> "object"]

\* MassModelBase._import_class (lines 89-127), for string identifiers:
\* the class instantiated, or the ValueError raised.
import_class(lens_type, kwargs_pixel_grid_fixed) ==
    LET classes == [GAUSSIAN |-> "Gaussian", SHEAR |-> "Shear",
                    SHEAR_GAMMA_PSI |-> "ShearGammaPsi",
                    POINT_MASS |-> "PointMass", NIE |-> "NIE", SIE |-> "SIE",
                    SIS |-> "SIS", EPL |-> "EPL", MULTIPOLE |-> "Multipole",
                    PIXELATED |-> "PixelatedPotential",
                    PIXELATED_DIRAC |-> "PixelatedPotentialDirac",
                    PIXELATED_FIXED |-> "PixelatedFixed"]
    IN  IF lens_type = "PIXELATED_FIXED" /\ ~kwargs_pixel_grid_fixed
        THEN [err |-> ValueErrorOn("PIXELATED_FIXED"), cls |-> ""]
        ELSE IF lens_type \in DOMAIN classes
        THEN [err |-> NoError, cls |-> classes[lens_type]]
        ELSE [err |-> ValueErrorOn(lens_type), cls |-> ""]

\* The loop of MassModelBase._load_model_instances (lines 69-86) from the
\* position idx (counted from 1) on; created counts the instances made so
\* far, pix_idx is the Python index (from 0) of the last pixelated profile.
RECURSIVE load_model_instances(_, _, _, _, _, _, _)
load_model_instances(lens_model_list, grid_fixed, idx, func_list, imported_classes, pix_idx, created) ==
    IF idx > Len(lens_model_list)
    THEN [err |-> NoError, func_list |-> func_list, pix_idx |-> pix_idx]
    ELSE LET lens_type == lens_model_list[idx]
             r == import_class(lens_type, grid_fixed)
             fresh == [cls |-> r.cls, id |-> created + 1]
         IN  IF lens_type \in {"PIXELATED", "PIXELATED_DIRAC"}
             THEN IF r.err # NoError
                  THEN [err |-> r.err, func_list |-> <<>>, pix_idx |-> Unset(0)]
                  ELSE load_model_instances(lens_model_list, grid_fixed,
                           idx + 1, Append(func_list, fresh), imported_classes,
                           Set(idx - 1), created + 1)
             ELSE IF lens_type \notin DOMAIN imported_classes
             THEN IF r.err # NoError
                  THEN [err |-> r.err, func_list |-> <<>>, pix_idx |-> Unset(0)]
                  ELSE load_model_instances(lens_model_list, grid_fixed,
                           idx + 1, Append(func_list, fresh),
                           DictSet(imported_classes, lens_type, fresh),
                           pix_idx, created + 1)
             ELSE load_model_instances(lens_model_list, grid_fixed, idx + 1,
                      Append(func_list, imported_classes[lens_type]),
                      imported_classes, pix_idx, created)

\* MassModelBase.__init__ (lines 42-50).
MassModelBase_init(lens_model_list, grid_fixed) ==
    LET r == load_model_instances(lens_model_list, grid_fixed, 1, <<>>, <<>>,
                                  Unset(0), 0)
    IN  IF r.err # NoError
        THEN [status |-> "failed", base |-> "MassModelBase", err |-> r.err,
              given |-> lens_model_list]
        ELSE [status |-> "built", base |-> "MassModelBase", err |-> NoError,
              given |-> lens_model_list, func_list |-> r.func_list,
              pix_idx |-> r.pix_idx, num_func |-> Len(r.func_list),
              model_list |-> lens_model_list]

\* The loop of LightModelBase.__init__ (lines 26-42): one new instance for
\* every position.
RECURSIVE light_func_list(_, _, _)
light_func_list(light_model_list, i, func_list) ==
    LET classes == [SERSIC |-> "Sersic", SERSIC_ELLIPSE |-> "SersicElliptic",
                    CORE_SERSIC |-> "CoreSersic", UNIFORM |-> "Uniform",
                    PIXELATED |-> "Pixelated", PIXELATED_BICUBIC |-> "Pixelated"]
    IN  IF i > Len(light_model_list)
        THEN [err |-> NoError, func_list |-> func_list]
        ELSE IF light_model_list[i] \in DOMAIN classes
        THEN light_func_list(light_model_list, i + 1,
                 Append(func_list, [cls |-> classes[light_model_list[i]],
                                    id |-> i]))
        ELSE [err |-> ValueErrorOn(light_model_list[i]), func_list |-> <<>>]

\* LightModelBase.__init__ (lines 24-44).
LightModelBase_init(light_model_list) ==
    LET r == light_func_list(light_model_list, 1, <<>>)
    IN  IF r.err # NoError
        THEN [status |-> "failed", base |-> "LightModelBase", err |-> r.err,
              given |-> light_model_list]
        ELSE [status |-> "built", base |-> "LightModelBase", err |-> NoError,
              given |-> light_model_list, func_list |-> r.func_list,
              profile_type_list |-> light_model_list,
              num_func |-> Len(r.func_list)]

\* MassModelBase.has_pixels and pixelated_index (lines 132-134, 149-152).
has_pixels(self) == self.pix_idx.has
pixelated_index(self) == self.pix_idx

\* The lists the composers are built from.
MassIdentifiers ==
    {"SIE", "SHEAR", "PIXELATED", "PIXELATED_DIRAC", "PIXELATED_FIXED", "UNIFORM"}
LightIdentifiers == {"SERSIC", "UNIFORM", "PIXELATED", "SIE"}
Lists(ids) == UNION {[1..n -> ids] : n \in 0..MaxList}

ConstructMass ==
    /\ composite.status = "new"
    /\ \E l \in Lists(MassIdentifiers), grid_fixed \in BOOLEAN :
         composite' = MassModelBase_init(l, grid_fixed)
    /\ composite_ret' = [op |-> "__init__"]
    /\ UNCHANGED <<parameters, lens_image, lens_image_ret, conv, conv_ret,
                   interpol_in, interpol_ret, reparam_in, reparam_ret>>

ConstructLight ==
    /\ composite.status = "new"
    /\ \E l \in Lists(LightIdentifiers) :
         composite' = LightModelBase_init(l)
    /\ composite_ret' = [op |-> "__init__"]
    /\ UNCHANGED <<parameters, lens_image, lens_image_ret, conv, conv_ret,
                   interpol_in, interpol_ret, reparam_in, reparam_ret>>

(***************************************************************************)
(* LightModelBase.surface_brightness.  The value of a profile at a point   *)
(* is kept as the term [cls, x, y, kwargs] standing for                    *)
(* cls.function(x, y, **kwargs); a flux is, for every point, the list of   *)
(* the terms added to the initial zero, in the order of the additions.     *)
(***************************************************************************)
MaxPoints == 2

\* The selection argument k: None, an integer, a list of integers or a
\* list of booleans.
KNone == [type |-> "None", v |-> <<>>]
KInt(i) == [type |-> "int", v |-> <<i>>]
KInts(l) == [type |-> "ints", v |-> l]
KBools(l) == [type |-> "bools", v |-> l]

\* The booleans of a list of Python indices (counted from 0), if all are
\* below n.
ints_to_bool_list(n, l) ==
    IF \E j \in 1..Len(l) : l[j] >= n
    THEN [err |-> ValueErrorOn("k"), bool_list |-> <<>>]
    ELSE [err |-> NoError,
          bool_list |-> [i \in 1..n |-> \E j \in 1..Len(l) : l[j] = i - 1]]

\* jaxtronomy.Util.util.convert_bool_list(n, k).
convert_bool_list(n, k) ==
    IF k.type = "None"
    THEN [err |-> NoError, bool_list |-> [i \in 1..n |-> TRUE]]
    ELSE IF k.type = "int"
    THEN IF k.v[1] >= n
         THEN [err |-> [kind |-> "IndexError", arg |-> "k"], bool_list |-> <<>>]
         ELSE [err |-> NoError, bool_list |-> [i \in 1..n |-> i - 1 = k.v[1]]]
    ELSE IF Len(k.v) = 0
    THEN [err |-> NoError, bool_list |-> [i \in 1..n |-> FALSE]]
    ELSE IF k.type = "bools"
    THEN IF Len(k.v) # n
         THEN [err |-> ValueErrorOn("k"), bool_list |-> <<>>]
         ELSE [err |-> NoError, bool_list |-> k.v]
    ELSE ints_to_bool_list(n, k.v)

Term(func, x, y, kwargs) == [cls |-> func.cls, x |-> x, y |-> y, kwargs |-> kwargs]

\* Every profile is taken, whatever the list of booleans says.
selected_all(bool_list, i) == TRUE

\* The test of line 64.
selected(bool_list, i) == bool_list[i]

\* The loop of surface_brightness (lines 63-65) from the profile i on, at
\* the point (x, y).
RECURSIVE flux_at(_, _, _, _, _, _, _)
flux_at(func_list, bool_list, kwargs_list, x, y, i, flux) ==
    IF i > Len(func_list) THEN flux
    ELSE flux_at(func_list, bool_list, kwargs_list, x, y, i + 1,
             IF selected(bool_list, i)
             THEN Append(flux, Term(func_list[i], x, y, kwargs_list[i]))
             ELSE flux)

\* LightModelBase.surface_brightness (lines 59-66), for 1-D x and y.
surface_brightness(self, x, y, kwargs_list, k) ==
    LET b == convert_bool_list(self.num_func, k)
    IN  IF b.err # NoError THEN [err |-> b.err, flux |-> <<>>]
        ELSE [err |-> NoError,
              flux |-> [p \in 1..Len(x) |->
                          flux_at(self.func_list, b.bool_list, kwargs_list,
                                  x[p], y[p], 1, <<>>)]]

\* The arguments of the explored calls.
Points == {[p \in 1..n |-> 2 * (p - 1)] : n \in 0..MaxPoints}
Amps == {10}
IndexSelections(n) ==
    {KNone} \cup {KInt(i) : i \in 0..n}
    \cup {KInts(l) : l \in {<<>>, <<0>>, <<n - 1, 0>>, <<n>>}}
BoolSelections(n) ==
    {KBools(l) : l \in UNION {[1..m -> BOOLEAN] : m \in {n - 1, n} \ {-1, 0}}}

SurfaceBrightnessCall(x, amp, k) ==
    LET y == [p \in 1..Len(x) |-> 2 - x[p]]
        kwargs_list == [i \in 1..composite.num_func |-> [amp |-> amp * i]]
    IN  composite_ret' =
            [op |-> "surface_brightness", x |-> x, y |-> y,
             kwargs_list |-> kwargs_list, k |-> k, self |-> composite,
             out |-> surface_brightness(composite, x, y, kwargs_list, k)]

SurfaceBrightness ==
    /\ composite.status = "built"
    /\ composite.base = "LightModelBase"
    /\ \E x \in Points, amp \in Amps :
         \/ \E k \in IndexSelections(composite.num_func) :
              SurfaceBrightnessCall(x, amp, k)
         \/ \E k \in BoolSelections(composite.num_func) :
              SurfaceBrightnessCall(x, amp, k)
    /\ UNCHANGED <<parameters, composite, lens_image, lens_image_ret, conv,
                   conv_ret, interpol_in, interpol_ret, reparam_in, reparam_ret>>

NextComposite == ConstructMass \/ ConstructLight \/ SurfaceBrightness

SpecComposite == Init /\ [][NextComposite]_vars

(***************************************************************************)
(* Claims on the composers.                                                *)
(***************************************************************************)
PixelatedIdentifiers(self) ==
    IF self.base = "MassModelBase" THEN {"PIXELATED", "PIXELATED_DIRAC"}
    ELSE {"PIXELATED", "PIXELATED_BICUBIC"}

\* C11: in a composer, func_list has one entry per list position; two
\* positions holding the same non-pixelated identifier hold one shared
\* instance, and a position holding a pixelated identifier holds an
\* instance no other position holds.
C11_SharedInstances ==
    composite.status = "built" =>
      LET l == composite.given
          f == composite.func_list
      IN  /\ Len(f) = Len(l)
          /\ \A i, j \in 1..Len(l) :
               (i # j /\ l[i] = l[j]
                /\ l[i] \notin PixelatedIdentifiers(composite))
               => f[i].id = f[j].id
          /\ \A i, j \in 1..Len(l) :
               (i # j /\ l[i] \in PixelatedIdentifiers(composite))
               => f[i].id # f[j].id

\* C12: a MassModelBase given more than one pixelated profile is not
\* constructed; a constructed one has at most one pixelated component,
\* has_pixels tells whether it has one and pixelated_index is its position.
C12_OnePixelated ==
    LET l == composite.given
        pix == {i \in 1..Len(l) : l[i] \in {"PIXELATED", "PIXELATED_DIRAC"}}
    IN  (composite.status # "new" /\ composite.base = "MassModelBase") =>
          /\ Cardinality(pix) > 1 => composite.status = "failed"
          /\ composite.status = "built" =>
               /\ Cardinality(pix) <= 1
               /\ has_pixels(composite) <=> pix # {}
               /\ \A i \in pix : pixelated_index(composite) = Set(i - 1)

\* The identifiers a composer resolves.
Registered(base) ==
    IF base = "MassModelBase"
    THEN {"GAUSSIAN", "SHEAR", "SHEAR_GAMMA_PSI", "POINT_MASS", "NIE", "SIE",
          "SIS", "EPL", "MULTIPOLE", "PIXELATED", "PIXELATED_DIRAC",
          "PIXELATED_FIXED"}
    ELSE {"SERSIC", "SERSIC_ELLIPSE", "CORE_SERSIC", "UNIFORM", "PIXELATED",
          "PIXELATED_BICUBIC"}

\* C13: a composer given a list with an identifier that is not registered
\* is not constructed: ValueError is raised, naming the first unregistered
\* identifier unless an earlier profile has already been refused; every
\* entry of a constructed composer is an instance of a profile class.
C13_UnknownIdentifier ==
    LET l == composite.given
        bad == {i \in 1..Len(l) : l[i] \notin Registered(composite.base)}
    IN  composite.status # "new" =>
          /\ bad # {} =>
               /\ composite.status = "failed"
               /\ composite.err.kind = "ValueError"
               /\ \E i \in 1..Len(l) :
                    /\ composite.err.arg = l[i]
                    /\ \A b \in bad : i <= b
                    /\ i \in bad \/ l[i] = "PIXELATED_FIXED"
          /\ composite.status = "built" =>
               \A i \in 1..Len(l) : composite.func_list[i].cls \notin {"", "object"}

\* A list whose second identifier is unknown to the composer is refused.
C13_Witness ==
    /\ composite.status = "failed"
    /\ Len(composite.given) >= 2
    /\ composite.given[1] \in Registered(composite.base)
    /\ composite.given[2] \notin Registered(composite.base)
    /\ composite.err = ValueErrorOn(composite.given[2])

\* The profiles a selection k picks among n (Python indices, from 0).
Picked(n, k) ==
    IF k.type = "None" THEN 0..(n - 1)
    ELSE IF k.type = "bools" THEN {i \in 0..(n - 1) : k.v[i + 1]}
    ELSE {k.v[j] : j \in 1..Len(k.v)}

ValidSelection(n, k) ==
    /\ k.type = "bools" => Len(k.v) \in {0, n}
    /\ k.type \in {"int", "ints"} => \A j \in 1..Len(k.v) : k.v[j] \in 0..(n - 1)

\* The terms of the profiles of S from the position i on, in list order.
RECURSIVE TermsOf(_, _, _, _, _, _)
TermsOf(func_list, kwargs_list, S, x, y, i) ==
    IF i > Len(func_list) THEN <<>>
    ELSE (IF (i - 1) \in S
          THEN <<Term(func_list[i], x, y, kwargs_list[i])>> ELSE <<>>)
         \o TermsOf(func_list, kwargs_list, S, x, y, i + 1)

\* C14: surface_brightness(x, y, kwargs_list, k) returns, for a valid
\* selection k, a field of the shape of x whose value at every point is the
\* sum of function(x, y, **kwargs_list[i]) over exactly the profiles picked
\* by k (all of them when k is None, hence zero when none is picked or the
\* list is empty), and leaves the composer as it was.
C14_SelectedSum ==
    composite_ret.op = "surface_brightness" =>
      LET r == composite_ret
          n == Len(r.self.func_list)
      IN  /\ ValidSelection(n, r.k) <=> r.out.err = NoError
          /\ r.out.err = NoError =>
               /\ DOMAIN r.out.flux = 1..Len(r.x)
               /\ \A p \in 1..Len(r.x) :
                    r.out.flux[p] = TermsOf(r.self.func_list, r.kwargs_list,
                                            Picked(n, r.k), r.x[p], r.y[p], 1)
          /\ composite = r.self

\* ['UNIFORM', 'SERSIC'] with only index 0 selected: the Uniform term alone
\* at each of the two points.
C14_Witness ==
    /\ composite_ret.op = "surface_brightness"
    /\ composite.given = <<"UNIFORM", "SERSIC">>
    /\ composite_ret.k.type = "int"
    /\ composite_ret.k.v = <<0>>
    /\ Len(composite_ret.x) = 2
    /\ \A p \in 1..2 :
         composite_ret.out.flux[p] =
             <<[cls |-> "Uniform", x |-> composite_ret.x[p],
                y |-> composite_ret.y[p], kwargs |-> composite_ret.kwargs_list[1]]>>

(***************************************************************************)
(* herculens/LensImage/lens_image.py: the construction of a LensImage and  *)
(* LensImage.simulation.  The object keeps, in calls, the list of the      *)
(* calls it has made on its collaborators (grid, PSF, models, noise) and   *)
(* on its own model method.                                                *)
(***************************************************************************)
\* What may be given for a model class: None, a model with an empty
\* profile list, a model without pixelated profile, a model with one.
ModelClasses == {"None", "empty", "plain", "pixelated"}

\* Every model is taken to have pixels.
model_has_pixels_always(model_class) == TRUE

\* has_pixels of the model kept for a model class; the default model made
\* for None has an empty profile list (lines 39-41, 48-50, 56-58).
model_has_pixels(model_class) == model_class = "pixelated"

\* The calls made for one model class (lines 43-46, 52-55, 60-63).
model_grid_calls(name, model_class) ==
    IF model_has_pixels(model_class)
    THEN <<"Grid.create_model_grid:" \o name, "Grid.model_pixel_axes:" \o name,
           "set_pixel_grid:" \o name>>
    ELSE <<>>

\* A PSF after set_pixel_size(self.Grid.pixel_width) (lines 35, 76).
with_pixel_size(psf_class) ==
    [name |-> psf_class, pixel_size |-> "Grid.pixel_width"]

\* NumericsSubFrame(pixel_grid=self.Grid, psf=self.PSF, **kwargs_numerics)
\* (lines 38, 77): a new object each time, numbered in the order of
\* construction.
NumericsSubFrame(psf, kwargs_numerics, serial) ==
    [psf |-> psf, kwargs |-> kwargs_numerics, serial |-> serial]

\* LensImage.__init__ (lines 29-65).  supplied and given_numerics keep what
\* the caller has handed over: the PSFs, in order, and kwargs_numerics.
LensImage_init(psf_class, noise_class, lens_model_class, source_model_class, lens_light_model_class, kwargs_numerics) ==
    LET numerics == IF kwargs_numerics = "None" THEN "{}" ELSE kwargs_numerics
    IN  [status |-> "built",
         PSF |-> with_pixel_size(psf_class),
         Noise |-> noise_class,
         ImageNumerics |-> NumericsSubFrame(with_pixel_size(psf_class), numerics, 1),
         LensModel |-> lens_model_class,
         SourceModel |-> source_model_class,
         LensLightModel |-> lens_light_model_class,
         kwargs_numerics |-> numerics,
         supplied |-> <<psf_class>>,
         given_numerics |-> kwargs_numerics,
         calls |-> <<"PSF.set_pixel_size", "NumericsSubFrame">>
                   \o model_grid_calls("lens", lens_model_class)
                   \o model_grid_calls("source", source_model_class)
                   \o model_grid_calls("lens_light", lens_light_model_class)
                   \o <<"Image2SourceMapping">>]

\* The resampler built at construction is kept.
update_psf_keeping_numerics(self, psf_class) ==
    [self EXCEPT !.PSF = with_pixel_size(psf_class),
                 !.supplied = Append(@, psf_class)]

\* LensImage.update_psf (lines 75-77).
update_psf(self, psf_class) ==
    [self EXCEPT !.PSF = with_pixel_size(psf_class),
                 !.ImageNumerics =
                     NumericsSubFrame(with_pixel_size(psf_class),
                                      self.kwargs_numerics,
                                      self.ImageNumerics.serial + 1),
                 !.supplied = Append(@, psf_class)]

\* The source is evaluated even when its profile list is empty.
source_is_empty_never(model_class) == FALSE

\* len(self.SourceModel.profile_type_list) == 0 (line 94); the default
\* model made for None has an empty list (line 50).
source_is_empty(model_class) == model_class \in {"None", "empty"}

\* LensImage.source_surface_brightness (lines 94-102) as called by model:
\* the term it returns (zeros for an empty source) and the calls it makes.
source_surface_brightness(self, unconvolved) ==
    IF source_is_empty(self.SourceModel)
    THEN [terms |-> <<>>, made |-> <<>>]
    ELSE [terms |-> <<[of |-> "source", unconvolved |-> unconvolved]>>,
          made |-> <<"ImageNumerics.coordinates_evaluate",
                     "source_mapping.image_flux_joint",
                     "ImageNumerics.re_size_convolve">>]

\* LensImage.lens_surface_brightness (lines 114-117).
lens_surface_brightness(self, unconvolved) ==
    [terms |-> <<[of |-> "lens_light", unconvolved |-> unconvolved]>>,
     made |-> <<"ImageNumerics.coordinates_evaluate",
                "LensLightModel.surface_brightness",
                "ImageNumerics.re_size_convolve">>]

\* LensImage.model (lines 139-145): an image of the shape
\* Grid.num_pixel_axes, the sum of the listed terms (zero when there is
\* none), and the calls made.
model(self, unconvolved, source_add, lens_light_add) ==
    LET src == IF source_add THEN source_surface_brightness(self, unconvolved)
               ELSE [terms |-> <<>>, made |-> <<>>]
        ll == IF lens_light_add THEN lens_surface_brightness(self, unconvolved)
              ELSE [terms |-> <<>>, made |-> <<>>]
    IN  [shape |-> "Grid.num_pixel_axes", terms |-> src.terms \o ll.terms,
         made |-> src.made \o ll.made]

\* The noise provider is never taken for missing.
noise_missing_never(noise_class) == FALSE

\* self.Noise is None (line 158).
noise_missing(noise_class) == noise_class = "None"

\* LensImage.simulation (lines 158-166): the exception raised, the image
\* returned and the calls made, in order.
simulation(self, add_poisson, add_gaussian, compute_true_noise_map) ==
    IF noise_missing(self.Noise)
    THEN [err |-> "ValueError", out |-> "", calls |-> <<>>]
    ELSE IF self.Noise = "None"
    THEN [err |-> "AttributeError", out |-> "", calls |-> <<"model">>]
    ELSE [err |-> "", out |-> "model + noise",
          calls |-> <<"model", "Noise.realisation", "Noise.set_data">>
                    \o (IF compute_true_noise_map
                        THEN <<"Noise.compute_noise_map_from_model">>
                        ELSE <<>>)]

\* The PSFs and the numerics settings handed over.
PsfClasses == {"psf_a", "psf_b"}
NumericsSettings == {"None", "{'supersampling_factor': 2}"}

ConstructLensImage ==
    /\ lens_image.status = "new"
    /\ \E noise_class \in {"None", "Noise"}, l, sr, ll \in ModelClasses,
          kwargs_numerics \in NumericsSettings :
         lens_image' = LensImage_init("psf_a", noise_class, l, sr, ll,
                                      kwargs_numerics)
    /\ lens_image_ret' = [op |-> "__init__"]
    /\ UNCHANGED <<parameters, composite, composite_ret, conv, conv_ret,
                   interpol_in, interpol_ret, reparam_in, reparam_ret>>

\* The update_psf calls are counted up to this number.
MaxUpdates == 2

UpdatePsf ==
    /\ lens_image.status = "built"
    /\ Len(lens_image.supplied) <= MaxUpdates
    /\ \E psf_class \in PsfClasses :
         /\ lens_image' = update_psf(lens_image, psf_class)
         /\ lens_image_ret' = [op |-> "update_psf", psf_class |-> psf_class]
    /\ UNCHANGED <<parameters, composite, composite_ret, conv, conv_ret,
                   interpol_in, interpol_ret, reparam_in, reparam_ret>>

Model ==
    /\ lens_image.status = "built"
    /\ \E unconvolved, source_add, lens_light_add \in BOOLEAN :
         lens_image_ret' =
             [op |-> "model", unconvolved |-> unconvolved,
              source_add |-> source_add, lens_light_add |-> lens_light_add,
              out |-> model(lens_image, unconvolved, source_add, lens_light_add)]
    /\ UNCHANGED <<parameters, composite, composite_ret, lens_image, conv,
                   conv_ret, interpol_in, interpol_ret, reparam_in,
                   reparam_ret>>

\* The calls are counted up to this length.
MaxCalls == 16

Simulation ==
    /\ lens_image.status = "built"
    /\ Len(lens_image.calls) + 4 <= MaxCalls
    /\ \E add_poisson, add_gaussian, compute_true_noise_map \in BOOLEAN :
         LET r == simulation(lens_image, add_poisson, add_gaussian,
                             compute_true_noise_map)
         IN  /\ lens_image' = [lens_image EXCEPT !.calls = @ \o r.calls]
             /\ lens_image_ret' =
                    [op |-> "simulation", add_poisson |-> add_poisson,
                     add_gaussian |-> add_gaussian,
                     compute_true_noise_map |-> compute_true_noise_map,
                     err |-> r.err, out |-> r.out, made |-> r.calls]
    /\ UNCHANGED <<parameters, composite, composite_ret, conv, conv_ret,
                   interpol_in, interpol_ret, reparam_in, reparam_ret>>

NextLensImage == ConstructLensImage \/ Simulation \/ UpdatePsf \/ Model

SpecLensImage == Init /\ [][NextLensImage]_vars

\* C15: simulation on a LensImage built without noise provider raises
\* ValueError, returns no image, and makes no call at all: the model is not
\* evaluated and no method of a noise provider is called.
C15_NoNoiseProvider ==
    (lens_image_ret.op = "simulation" /\ lens_image.Noise = "None")
    => /\ lens_image_ret.err = "ValueError"
       /\ lens_image_ret.out = ""
       /\ lens_image_ret.made = <<>>
       /\ \A i \in 1..Len(lens_image.calls) :
            lens_image.calls[i] \notin
                {"model", "Noise.realisation", "Noise.set_data",
                 "Noise.compute_noise_map_from_model"}

\* simulation has been called on a LensImage without noise provider.
C15_Witness ==
    /\ lens_image_ret.op = "simulation"
    /\ lens_image.Noise = "None"
    /\ lens_image_ret.err = "ValueError"

\* The positions of a call in the list of the calls made.
Positions(calls, c) == {i \in 1..Len(calls) : calls[i] = c}

\* C25: during the construction of a LensImage, for each model class (lens,
\* source, lens_light) Grid.create_model_grid is called exactly once with
\* the name of the class if and only if the model has pixels, and before
\* set_pixel_grid hands the model grid to the model; for a model without
\* pixels (the empty default model of a class given as None included)
\* neither call is made.
C25_ModelGrids ==
    lens_image.status = "built" =>
      \A name \in {"lens", "source", "lens_light"} :
        LET given == IF name = "lens" THEN lens_image.LensModel
                     ELSE IF name = "source" THEN lens_image.SourceModel
                     ELSE lens_image.LensLightModel
            created == Positions(lens_image.calls, "Grid.create_model_grid:" \o name)
            attached == Positions(lens_image.calls, "set_pixel_grid:" \o name)
        IN  IF given = "pixelated"
            THEN /\ Cardinality(created) = 1
                 /\ Cardinality(attached) = 1
                 /\ \A i \in created : \A j \in attached : i < j
            ELSE created = {} /\ attached = {}

\* A LensImage built with a pixelated source, a lens model without pixels
\* and no lens light model.
C25_Witness ==
    /\ lens_image.status = "built"
    /\ lens_image.SourceModel = "pixelated"
    /\ lens_image.LensModel = "plain"
    /\ lens_image.LensLightModel = "None"
    /\ Positions(lens_image.calls, "Grid.create_model_grid:source") # {}
    /\ Positions(lens_image.calls, "Grid.create_model_grid:lens") = {}

\* C27: LensImage.model returns an image of the pixel shape of the grid,
\* the source surface brightness (only when source_add is True) plus the
\* lens-light surface brightness (only when lens_light_add is True): all
\* zero with both flags False; with an empty source profile list the source
\* term is all zero and neither ray-shooting nor convolution is invoked
\* for it.
C27_ModelSum ==
    lens_image_ret.op = "model" =>
      LET out == lens_image_ret.out
          of == {out.terms[i].of : i \in 1..Len(out.terms)}
          source_empty == lens_image.SourceModel \in {"None", "empty"}
      IN  /\ out.shape = "Grid.num_pixel_axes"
          /\ "source" \in of <=> (lens_image_ret.source_add /\ ~source_empty)
          /\ "lens_light" \in of <=> lens_image_ret.lens_light_add
          /\ Len(out.terms) = Cardinality(of)
          /\ of \subseteq {"source", "lens_light"}
          /\ (~lens_image_ret.source_add /\ ~lens_image_ret.lens_light_add)
               => out.terms = <<>> /\ out.made = <<>>
          /\ (source_empty /\ ~lens_image_ret.lens_light_add) => out.made = <<>>
          /\ source_empty =>
               "source_mapping.image_flux_joint"
                   \notin {out.made[i] : i \in 1..Len(out.made)}
          /\ "ImageNumerics.re_size_convolve"
                 \in {out.made[i] : i \in 1..Len(out.made)}
               <=> out.terms # <<>>

\* model has been called with both terms asked for on a LensImage whose
\* source model has an empty profile list: only the lens light is computed.
C27_Witness ==
    /\ lens_image_ret.op = "model"
    /\ lens_image.SourceModel = "empty"
    /\ lens_image_ret.source_add
    /\ lens_image_ret.lens_light_add
    /\ Len(lens_image_ret.out.terms) = 1
    /\ lens_image_ret.out.terms[1].of = "lens_light"

(***************************************************************************)
(* jaxtronomy/LensImage/Numerics/convolution.py: the three convolution     *)
(* strategies.  An image or a kernel is the list of its rows.              *)
(***************************************************************************)
MaxKernel == 3
MaxImage == 4

Rows(m) == Len(m)
Cols(m) == IF Len(m) = 0 THEN 0 ELSE Len(m[1])
At(m, i, j) == IF i \in 1..Rows(m) /\ j \in 1..Cols(m) THEN m[i][j] ELSE 0

RECURSIVE SumOver(_, _)
SumOver(f, S) ==
    IF S = {} THEN 0
    ELSE LET x == CHOOSE y \in S : TRUE IN f[x] + SumOver(f, S \ {x})

\* jax.scipy.signal.convolve2d(in1, in2, mode='same'): the full
\* convolution cut to the shape of in1 around its centre.  The routine
\* refuses an empty input, and a pair of inputs of which neither is at
\* least as large as the other in both dimensions.
convolve2d(in1, in2) ==
    IF Rows(in1) * Cols(in1) = 0 \/ Rows(in2) * Cols(in2) = 0
    THEN [err |-> "ValueError", out |-> <<>>]
    ELSE IF ~(\/ Rows(in1) >= Rows(in2) /\ Cols(in1) >= Cols(in2)
              \/ Rows(in1) <= Rows(in2) /\ Cols(in1) <= Cols(in2))
    THEN [err |-> "ValueError", out |-> <<>>]
    ELSE LET c1 == (Rows(in2) - 1) \div 2
             c2 == (Cols(in2) - 1) \div 2
             K == (1..Rows(in2)) \X (1..Cols(in2))
         IN  [err |-> "",
              out |-> [i \in 1..Rows(in1) |-> [j \in 1..Cols(in1) |->
                  SumOver([ab \in K |->
                              At(in1, i + c1 - ab[1] + 1, j + c2 - ab[2] + 1)
                              * in2[ab[1]][ab[2]]], K)]]]

\* Every convolution_type is taken.
PixelKernelConvolution_init_any_type(kernel, convolution_type) ==
    [status |-> "built", cls |-> "PixelKernelConvolution", err |-> "",
     kernel |-> kernel, type |-> convolution_type]

\* PixelKernelConvolution.__init__ (lines 36-39).
PixelKernelConvolution_init(kernel, convolution_type) ==
    IF convolution_type \notin {"grid"}
    THEN [status |-> "failed", cls |-> "PixelKernelConvolution",
          err |-> "ValueError"]
    ELSE [status |-> "built", cls |-> "PixelKernelConvolution", err |-> "",
          kernel |-> kernel, type |-> convolution_type]

\* kernel_util.split_kernel, kept as the pair of the named parts.
split_kernel(kernel_supersampled, supersampling_kernel_size, supersampling_factor) ==
    [low_res |-> [part |-> "low_res", of |-> kernel_supersampled,
                  size |-> supersampling_kernel_size,
                  factor |-> supersampling_factor],
     high_res |-> [part |-> "high_res", of |-> kernel_supersampled,
                   size |-> supersampling_kernel_size,
                   factor |-> supersampling_factor]]

Zeros(n, m) == [i \in 1..n |-> [j \in 1..m |-> 0]]

\* SubgridKernelConvolution.__init__ (lines 90-105); a
\* supersampling_kernel_size of 0 stands for None.
SubgridKernelConvolution_init(kernel_supersampled, supersampling_factor, supersampling_kernel_size, convolution_type) ==
    LET given == supersampling_kernel_size # 0
        parts == split_kernel(kernel_supersampled, supersampling_kernel_size,
                              supersampling_factor)
        low == PixelKernelConvolution_init(
                   IF given THEN parts.low_res ELSE Zeros(3, 3),
                   convolution_type)
        high == PixelKernelConvolution_init(
                    IF given THEN parts.high_res ELSE kernel_supersampled,
                    convolution_type)
        args == [kernel_supersampled |-> kernel_supersampled,
                 supersampling_factor |-> supersampling_factor,
                 supersampling_kernel_size |-> supersampling_kernel_size,
                 convolution_type |-> convolution_type]
    IN  IF low.status = "failed" \/ high.status = "failed"
        THEN [status |-> "failed", cls |-> "SubgridKernelConvolution",
              err |-> "ValueError", given |-> args]
        ELSE [status |-> "built", cls |-> "SubgridKernelConvolution",
              err |-> "", given |-> args,
              supersampling_factor |-> supersampling_factor,
              low_res_convolution |-> given, low_res_conv |-> low,
              high_res_conv |-> high]

\* The sigmas are scaled by the supersampling factor with or without
\* supersampled convolution.
sigma_scale_always(supersampling_factor, supersampling_convolution) ==
    supersampling_factor

\* The factor applied to the sigmas (lines 154-155).
sigma_scale(supersampling_factor, supersampling_convolution) ==
    IF supersampling_convolution THEN supersampling_factor ELSE 1

\* MultiGaussianConvolution.__init__ (lines 152-164); a ratio is the pair
\* <<numerator, denominator>>.
MultiGaussianConvolution_init(sigma_list, fraction_list, pixel_scale, supersampling_factor, supersampling_convolution) ==
    LET total == SumOver(fraction_list, DOMAIN fraction_list)
        scale == sigma_scale(supersampling_factor, supersampling_convolution)
        args == [sigma_list |-> sigma_list, fraction_list |-> fraction_list,
                 pixel_scale |-> pixel_scale,
                 supersampling_factor |-> supersampling_factor,
                 supersampling_convolution |-> supersampling_convolution]
    IN  IF Len(sigma_list) # Len(fraction_list)
        THEN [status |-> "failed", cls |-> "MultiGaussianConvolution",
              err |-> "AssertionError", given |-> args]
        ELSE [status |-> "built", cls |-> "MultiGaussianConvolution",
              err |-> "", given |-> args, num_gaussians |-> Len(sigma_list),
              sigmas_scaled |-> [i \in DOMAIN sigma_list |->
                                    <<sigma_list[i] * scale, pixel_scale>>],
              fraction_list |-> [i \in DOMAIN fraction_list |->
                                    <<fraction_list[i], total>>],
              truncation |-> 2, pixel_scale |-> pixel_scale,
              supersampling_factor |-> supersampling_factor,
              supersampling_convolution |-> supersampling_convolution]

\* kernel_util.cut_psf(kernel, num_pix): the central num_pix x num_pix
\* part of the kernel, normalized (shape |-> the shape of the result).
cut_psf(kernel, num_pix) ==
    IF \/ Rows(kernel) < num_pix \/ Cols(kernel) < num_pix
       \/ Rows(kernel) % 2 # num_pix % 2 \/ Cols(kernel) % 2 # num_pix % 2
    THEN [err |-> "ValueError", shape |-> <<>>]
    ELSE [err |-> "", shape |-> <<num_pix, num_pix>>]

\* pixel_kernel(num_pix) on an object of each class (lines 41-50 and
\* 191-204; SubgridKernelConvolution, lines 78-131, defines none); a
\* num_pix of 0 stands for None.
pixel_kernel(self, num_pix) ==
    IF self.cls = "PixelKernelConvolution"
    THEN IF num_pix # 0 THEN cut_psf(self.kernel, num_pix)
         ELSE [err |-> "", shape |-> <<Rows(self.kernel), Cols(self.kernel)>>]
    ELSE IF self.cls = "MultiGaussianConvolution"
    THEN IF num_pix = 0 THEN [err |-> "TypeError", shape |-> <<>>]
         ELSE [err |-> "", shape |-> <<num_pix, num_pix>>]
    ELSE [err |-> "AttributeError", shape |-> <<>>]

\* PixelKernelConvolution.convolution2d (lines 66-67).
convolution2d(self, image) == convolve2d(image, self.kernel)

\* PixelKernelConvolution.re_size_convolve (line 75).
re_size_convolve(self, image_low_res) == convolution2d(self, image_low_res)

\* Where a kernel is one of the parts of split_kernel, an image is kept as
\* a term: a named input image, the image convolved by an inner
\* PixelKernelConvolution (line 66), the image resized by
\* image_util.re_size, and a sum as the list of its summands.
Convolved(inner, image) ==
    [op |-> "convolve2d", image |-> image, kernel |-> inner.kernel, factor |-> 1]
re_size(image, factor) ==
    [op |-> "re_size", image |-> image, kernel |-> "", factor |-> factor]

\* SubgridKernelConvolution.convolution2d (lines 107-119).
Subgrid_convolution2d(self, image) ==
    LET image_high_res_conv == Convolved(self.high_res_conv, image)
        image_resized_conv == re_size(image_high_res_conv, self.supersampling_factor)
    IN  IF self.low_res_convolution
        THEN <<image_resized_conv,
               Convolved(self.low_res_conv,
                         re_size(image, self.supersampling_factor))>>
        ELSE <<image_resized_conv>>

\* The low-resolution term is added whatever the flag.
Subgrid_re_size_convolve_always_low(self, image_low_res, image_high_res) ==
    <<re_size(Convolved(self.high_res_conv, image_high_res),
              self.supersampling_factor),
      Convolved(self.low_res_conv, image_low_res)>>

\* SubgridKernelConvolution.re_size_convolve (lines 121-131).
Subgrid_re_size_convolve(self, image_low_res, image_high_res) ==
    LET image_high_res_conv == Convolved(self.high_res_conv, image_high_res)
        image_resized_conv == re_size(image_high_res_conv, self.supersampling_factor)
    IN  IF self.low_res_convolution
        THEN <<image_resized_conv, Convolved(self.low_res_conv, image_low_res)>>
        ELSE <<image_resized_conv>>

\* MultiGaussianConvolution.convolution2d (lines 166-176): the sum, kept as
\* the list of its summands, of the outputs of the Gaussian filters
\* (GaussianFilter(sigma, truncation), line 163) times their weights.
MultiGaussian_convolution2d(self, image) ==
    IF self.num_gaussians = 0 THEN [err |-> "IndexError", terms |-> <<>>]
    ELSE [err |-> "",
          terms |-> [i \in 1..self.num_gaussians |->
                        [op |-> "GaussianFilter", image |-> image,
                         sigma |-> self.sigmas_scaled[i],
                         truncation |-> self.truncation,
                         weight |-> self.fraction_list[i]]]]

\* MultiGaussianConvolution.re_size_convolve (lines 178-189); resized is
\* the factor of image_util.re_size, 0 when the image is not resized.
MultiGaussian_re_size_convolve(self, image_low_res, image_high_res) ==
    IF self.supersampling_convolution
    THEN LET image_high_res_conv == MultiGaussian_convolution2d(self, image_high_res)
         IN  [err |-> image_high_res_conv.err,
              terms |-> image_high_res_conv.terms,
              resized |-> self.supersampling_factor]
    ELSE LET image_resized_conv == MultiGaussian_convolution2d(self, image_low_res)
         IN  [err |-> image_resized_conv.err,
              terms |-> image_resized_conv.terms, resized |-> 0]

\* The kernels and images explored.
OddSizes == {n \in 1..MaxKernel : n % 2 = 1}
Spike(n, m, a, b) ==
    [i \in 1..n |-> [j \in 1..m |-> IF i = a /\ j = b THEN 1 ELSE 0]]
Delta(n, m) == Spike(n, m, (n + 1) \div 2, (m + 1) \div 2)
Kernels ==
    {Delta(n, m) : n \in OddSizes, m \in OddSizes}
    \cup {Spike(3, 3, 1, 1), Spike(2, 2, 1, 1),
          [i \in 1..3 |-> [j \in 1..3 |-> 1]]}
Images ==
    {[i \in 1..n |-> [j \in 1..m |-> 10 * i + j]] :
        n \in 1..MaxImage, m \in 1..MaxImage}

ConstructConv ==
    /\ conv.status = "new"
    /\ \/ \E kernel \in Kernels, convolution_type \in {"grid", "fft"} :
            conv' = PixelKernelConvolution_init(kernel, convolution_type)
       \/ \E kernel \in Kernels, supersampling_factor \in {1, 2},
             supersampling_kernel_size \in {0, 3},
             convolution_type \in {"fft_static", "grid"} :
            conv' = SubgridKernelConvolution_init(kernel,
                        supersampling_factor, supersampling_kernel_size,
                        convolution_type)
       \/ \E sigma_list \in {<<1>>, <<1, 2>>}, fraction_list \in {<<1>>, <<1, 3>>},
             pixel_scale \in {1, 2}, supersampling_factor \in {1, 2},
             supersampling_convolution \in BOOLEAN :
            conv' = MultiGaussianConvolution_init(sigma_list, fraction_list,
                        pixel_scale, supersampling_factor,
                        supersampling_convolution)
    /\ conv_ret' = [op |-> "__init__"]
    /\ UNCHANGED <<parameters, composite, composite_ret, lens_image,
                   lens_image_ret, interpol_in, interpol_ret, reparam_in,
                   reparam_ret>>

PixelKernel ==
    /\ conv.status = "built"
    /\ \E num_pix \in 0..MaxKernel :
         conv_ret' = [op |-> "pixel_kernel", num_pix |-> num_pix,
                      out |-> pixel_kernel(conv, num_pix)]
    /\ UNCHANGED <<parameters, composite, composite_ret, lens_image,
                   lens_image_ret, conv, interpol_in, interpol_ret,
                   reparam_in, reparam_ret>>

Convolution2d ==
    /\ conv.status = "built"
    /\ conv.cls = "PixelKernelConvolution"
    /\ \E image \in Images :
         conv_ret' = [op |-> "convolution2d", image |-> image,
                      out |-> convolution2d(conv, image)]
    /\ UNCHANGED <<parameters, composite, composite_ret, lens_image,
                   lens_image_ret, conv, interpol_in, interpol_ret,
                   reparam_in, reparam_ret>>

ReSizeConvolve ==
    /\ conv.status = "built"
    /\ conv.cls = "PixelKernelConvolution"
    /\ \E image \in Images :
         conv_ret' = [op |-> "re_size_convolve", image |-> image,
                      out |-> re_size_convolve(conv, image)]
    /\ UNCHANGED <<parameters, composite, composite_ret, lens_image,
                   lens_image_ret, conv, interpol_in, interpol_ret,
                   reparam_in, reparam_ret>>

\* The named images handed to the methods of the two other classes.
NamedImages == {"image_a", "image_b"}

SubgridConvolution2d ==
    /\ conv.status = "built"
    /\ conv.cls = "SubgridKernelConvolution"
    /\ \E image \in NamedImages :
         conv_ret' = [op |-> "Subgrid.convolution2d", image |-> image,
                      out |-> Subgrid_convolution2d(conv, image)]
    /\ UNCHANGED <<parameters, composite, composite_ret, lens_image,
                   lens_image_ret, conv, interpol_in, interpol_ret,
                   reparam_in, reparam_ret>>

SubgridReSizeConvolve ==
    /\ conv.status = "built"
    /\ conv.cls = "SubgridKernelConvolution"
    /\ \E image_low_res, image_high_res \in NamedImages :
         conv_ret' = [op |-> "Subgrid.re_size_convolve",
                      image_low_res |-> image_low_res,
                      image_high_res |-> image_high_res,
                      out |-> Subgrid_re_size_convolve(conv, image_low_res,
                                                       image_high_res)]
    /\ UNCHANGED <<parameters, composite, composite_ret, lens_image,
                   lens_image_ret, conv, interpol_in, interpol_ret,
                   reparam_in, reparam_ret>>

MultiGaussianConvolution2d ==
    /\ conv.status = "built"
    /\ conv.cls = "MultiGaussianConvolution"
    /\ \E image \in NamedImages :
         conv_ret' = [op |-> "MultiGaussian.convolution2d", image |-> image,
                      out |-> MultiGaussian_convolution2d(conv, image)]
    /\ UNCHANGED <<parameters, composite, composite_ret, lens_image,
                   lens_image_ret, conv, interpol_in, interpol_ret,
                   reparam_in, reparam_ret>>

MultiGaussianReSizeConvolve ==
    /\ conv.status = "built"
    /\ conv.cls = "MultiGaussianConvolution"
    /\ \E image_low_res, image_high_res \in NamedImages :
         conv_ret' = [op |-> "MultiGaussian.re_size_convolve",
                      image_low_res |-> image_low_res,
                      image_high_res |-> image_high_res,
                      out |-> MultiGaussian_re_size_convolve(
                                  conv, image_low_res, image_high_res)]
    /\ UNCHANGED <<parameters, composite, composite_ret, lens_image,
                   lens_image_ret, conv, interpol_in, interpol_ret,
                   reparam_in, reparam_ret>>

NextConv ==
    \/ ConstructConv
    \/ PixelKernel
    \/ Convolution2d
    \/ ReSizeConvolve
    \/ SubgridConvolution2d
    \/ SubgridReSizeConvolve
    \/ MultiGaussianConvolution2d
    \/ MultiGaussianReSizeConvolve

SpecConv == Init /\ [][NextConv]_vars

\* C16: on an object of each of the three strategies, pixel_kernel(size)
\* with an odd size (no larger than the stored kernel, for a pixel kernel
\* of odd size) returns a 2D kernel of that size.
C16_PixelKernelAccessor ==
    (/\ conv_ret.op = "pixel_kernel"
     /\ conv_ret.num_pix % 2 = 1
     /\ conv.cls = "PixelKernelConvolution" =>
          /\ Rows(conv.kernel) % 2 = 1 /\ Cols(conv.kernel) % 2 = 1
          /\ conv_ret.num_pix <= Rows(conv.kernel)
          /\ conv_ret.num_pix <= Cols(conv.kernel))
    => /\ conv_ret.out.err = ""
       /\ conv_ret.out.shape = <<conv_ret.num_pix, conv_ret.num_pix>>

\* C17: for a PixelKernelConvolution whose kernel has odd sides, 1 at its
\* centre and 0 elsewhere, convolution2d(image) and re_size_convolve(image)
\* return the image itself, for every 2D image.
C17_DeltaKernelIdentity ==
    (/\ conv_ret.op \in {"convolution2d", "re_size_convolve"}
     /\ conv.kernel \in {Delta(n, m) : n \in OddSizes, m \in OddSizes})
    => /\ conv_ret.out.err = ""
       /\ conv_ret.out.out = conv_ret.image

(***************************************************************************)
(* herculens/Util/linear_util.py: build_bilinear_interpol_matrix.          *)
(* Coordinates are integers (quarters of a pixel width in the explored     *)
(* grids); indices are Python's, counted from 0; a weight is the ratio     *)
(* <<numerator, denominator>>.                                             *)
(***************************************************************************)
MaxGrid == 3
MaxOut == 2

Sign(x) == IF x > 0 THEN 1 ELSE IF x < 0 THEN -1 ELSE 0

\* np.linspace(lower, upper, num_pix + 1)[t], on doubled coordinates.
bin_edge(lower2, upper2, num_pix, t) ==
    lower2 + (t * (upper2 - lower2)) \div num_pix

\* np.digitize takes the bins for increasing whatever their order.
digitize_increasing(x2, lower2, upper2, num_pix) ==
    Cardinality({t \in 0..num_pix : bin_edge(lower2, upper2, num_pix, t) <= x2})

\* np.digitize(x, bins) for the bins of linspace(lower, upper, num_pix + 1),
\* increasing or decreasing (lines 162, 168, 181-182).
digitize(x2, lower2, upper2, num_pix) ==
    IF lower2 <= upper2
    THEN Cardinality({t \in 0..num_pix :
                         bin_edge(lower2, upper2, num_pix, t) <= x2})
    ELSE Cardinality({t \in 0..num_pix :
                         bin_edge(lower2, upper2, num_pix, t) > x2})

\* The geometry read from the input grid (lines 154-172), coordinates
\* doubled so that the half pixel is exact.
grid_geometry(x_grid_1d_in, y_grid_1d_in) ==
    LET size == Len(x_grid_1d_in)
        num_pix == CHOOSE n \in 0..size : n * n <= size /\ (n + 1) * (n + 1) > size
        delta_pix == Abs(x_grid_1d_in[1] - x_grid_1d_in[2])
        x_dir == IF x_grid_1d_in[1] > x_grid_1d_in[num_pix] THEN -1 ELSE 1
        y_last == y_grid_1d_in[(num_pix - 1) * num_pix + 1]
        y_dir == IF y_grid_1d_in[1] > y_last THEN -1 ELSE 1
        x_lower2 == 2 * x_grid_1d_in[1] - x_dir * delta_pix
        x_upper2 == 2 * x_grid_1d_in[num_pix] + x_dir * delta_pix
        y_lower2 == 2 * y_grid_1d_in[1] - y_dir * delta_pix
        y_upper2 == 2 * y_last + y_dir * delta_pix
    IN  [num_pix |-> num_pix, delta_pix |-> delta_pix, x_dir |-> x_dir,
         y_dir |-> y_dir, x_lower2 |-> x_lower2, x_upper2 |-> x_upper2,
         y_lower2 |-> y_lower2, y_upper2 |-> y_upper2,
         x_min2 |-> IF x_dir = 1 THEN x_lower2 ELSE x_upper2,
         x_max2 |-> IF x_dir = 1 THEN x_upper2 ELSE x_lower2,
         y_min2 |-> IF y_dir = 1 THEN y_lower2 ELSE y_upper2,
         y_max2 |-> IF y_dir = 1 THEN y_upper2 ELSE y_lower2]

\* selection (lines 173-174) for one output point.
selection(g, x, y) ==
    /\ 2 * x > g.x_min2 /\ 2 * x < g.x_max2
    /\ 2 * y > g.y_min2 /\ 2 * y < g.y_max2

\* The entries <<row, col, weight>> of one selected output point (lines
\* 181-233): its four indices, the mask, the weights and their norm.
point_entries(g, x_grid_1d_in, y_grid_1d_in, row, x, y) ==
    LET index_x == digitize(2 * x, g.x_lower2, g.x_upper2, g.num_pix) - 1
        index_y == digitize(2 * y, g.y_lower2, g.y_upper2, g.num_pix) - 1
        index_1 == index_x + index_y * g.num_pix
        dx == x - x_grid_1d_in[index_1 + 1]
        dy == y - y_grid_1d_in[index_1 + 1]
        index_2 == index_1 + g.x_dir * Sign(dx)
        index_3 == index_1 + g.y_dir * Sign(dy) * g.num_pix
        index_4 == index_2 + g.y_dir * Sign(dy) * g.num_pix
        index == <<index_1, index_2, index_3, index_4>>
        max_index == Len(x_grid_1d_in) - 1
        mask == [k \in 1..4 |-> k = 1 \/ ~(index[k] < 0 \/ index[k] > max_index)]
        col == [k \in 1..4 |-> IF mask[k] THEN index[k] ELSE 0]
        weight == [k \in 1..4 |->
                      (g.delta_pix - Abs(x - x_grid_1d_in[col[k] + 1]))
                      * (g.delta_pix - Abs(y - y_grid_1d_in[col[k] + 1]))]
        norm == SumOver(weight, {k \in 1..4 : mask[k]})
    IN  SelectSeq([k \in 1..4 |-> [row |-> row, col |-> col[k],
                                   weight |-> <<weight[k], norm>>,
                                   keep |-> mask[k]]],
                  LAMBDA e : e.keep)

RECURSIVE all_entries(_, _, _, _, _, _)
all_entries(g, x_grid_1d_in, y_grid_1d_in, x_grid_1d_out, y_grid_1d_out, p) ==
    IF p > Len(x_grid_1d_out) THEN <<>>
    ELSE (IF selection(g, x_grid_1d_out[p], y_grid_1d_out[p])
          THEN point_entries(g, x_grid_1d_in, y_grid_1d_in, p - 1,
                             x_grid_1d_out[p], y_grid_1d_out[p])
          ELSE <<>>)
         \o all_entries(g, x_grid_1d_in, y_grid_1d_in, x_grid_1d_out,
                        y_grid_1d_out, p + 1)

\* build_bilinear_interpol_matrix (lines 141-238): the sparse matrix as its
\* shape and its entries (entries of one row and column add up).  The
\* shape takes its number of rows from the points left after the selection
\* (lines 176, 235); csr_matrix refuses a row index beyond it.
build_bilinear_interpol_matrix(x_grid_1d_in, y_grid_1d_in, x_grid_1d_out, y_grid_1d_out) ==
    IF Len(x_grid_1d_in) < 2
    THEN [err |-> "IndexError", shape |-> <<>>, entries |-> <<>>]
    ELSE LET g == grid_geometry(x_grid_1d_in, y_grid_1d_in)
             kept == {p \in 1..Len(x_grid_1d_out) :
                         selection(g, x_grid_1d_out[p], y_grid_1d_out[p])}
             entries == all_entries(g, x_grid_1d_in, y_grid_1d_in,
                                    x_grid_1d_out, y_grid_1d_out, 1)
             dense_shape == <<Cardinality(kept), Len(x_grid_1d_in)>>
         IN  IF \E i \in 1..Len(entries) : entries[i].row >= dense_shape[1]
             THEN [err |-> "ValueError", shape |-> <<>>, entries |-> <<>>]
             ELSE [err |-> "", shape |-> dense_shape, entries |-> entries]

\* The square input grids: num_pix points a side, 4 apart, each axis
\* increasing (direction 1) or decreasing (direction -1), x running first.
Axis(num_pix, dir, c) == IF dir = 1 THEN 4 * c ELSE 4 * (num_pix - 1 - c)
GridX(num_pix, dir) ==
    [i \in 1..(num_pix * num_pix) |-> Axis(num_pix, dir, (i - 1) % num_pix)]
GridY(num_pix, dir) ==
    [i \in 1..(num_pix * num_pix) |-> Axis(num_pix, dir, (i - 1) \div num_pix)]

\* Output points: outside the grid, on a pixel centre, between centres,
\* and between the last centre and the edge of the grid.
OutPoints(num_pix) ==
    LET last == 4 * (num_pix - 1) + 1
    IN  {<<-3, 0>>, <<4, -3>>, <<0, 0>>, <<1, 0>>, <<1, 1>>, <<last, 0>>,
         <<0, last>>, <<last, last>>}

InterpolInputs ==
    UNION {UNION {
        {[status |-> "given", num_pix |-> n, x_dir |-> xd, y_dir |-> yd,
          x_grid_1d_in |-> GridX(n, xd), y_grid_1d_in |-> GridY(n, yd),
          x_grid_1d_out |-> [p \in DOMAIN pts |-> pts[p][1]],
          y_grid_1d_out |-> [p \in DOMAIN pts |-> pts[p][2]],
          same_grid |-> FALSE] :
            pts \in UNION {[1..m -> OutPoints(n)] : m \in 0..MaxOut}}
        \cup {[status |-> "given", num_pix |-> n, x_dir |-> xd, y_dir |-> yd,
               x_grid_1d_in |-> GridX(n, xd), y_grid_1d_in |-> GridY(n, yd),
               x_grid_1d_out |-> GridX(n, xd), y_grid_1d_out |-> GridY(n, yd),
               same_grid |-> TRUE]} :
        xd \in {1, -1}, yd \in {1, -1}} : n \in 2..MaxGrid}

InitBilinear ==
    /\ InitParameters
    /\ InitComposite
    /\ InitLensImage
    /\ InitConv
    /\ InitReparam
    /\ interpol_in \in InterpolInputs
    /\ interpol_ret = NoRet

BuildBilinearInterpolMatrix ==
    /\ interpol_ret.op = "none"
    /\ interpol_ret' =
           [op |-> "build_bilinear_interpol_matrix",
            out |-> build_bilinear_interpol_matrix(
                        interpol_in.x_grid_1d_in, interpol_in.y_grid_1d_in,
                        interpol_in.x_grid_1d_out, interpol_in.y_grid_1d_out)]
    /\ UNCHANGED <<parameters, composite, composite_ret, lens_image,
                   lens_image_ret, conv, conv_ret, interpol_in, reparam_in,
                   reparam_ret>>

NextBilinear == BuildBilinearInterpolMatrix

SpecBilinear == InitBilinear /\ [][NextBilinear]_vars

\* The entries of the operator for the output point row and the input
\* pixel col, and the sum of their numerators (all weights of a row have
\* the same denominator, the norm of the row).
EntriesAt(entries, row, col) ==
    {i \in 1..Len(entries) : entries[i].row = row /\ entries[i].col = col}
EntriesOf(entries, row) == {i \in 1..Len(entries) : entries[i].row = row}
Numerators(entries, S) == SumOver([i \in S |-> entries[i].weight[1]], S)

\* The output point p lies outside the cells of the input grid.
OutOfBounds(in, p) ==
    LET X == {in.x_grid_1d_in[i] : i \in DOMAIN in.x_grid_1d_in}
        Y == {in.y_grid_1d_in[i] : i \in DOMAIN in.y_grid_1d_in}
        x == in.x_grid_1d_out[p]
        y == in.y_grid_1d_out[p]
    IN  \/ (\A c \in X : x <= c - 2)
        \/ (\A c \in X : x >= c + 2)
        \/ (\A c \in Y : y <= c - 2)
        \/ (\A c \in Y : y >= c + 2)

\* The input pixels less than a pixel width away from the output point p
\* along both axes: its (at most four) nearest neighbours in the grid.
Neighbours(in, p) ==
    {i - 1 : i \in {j \in DOMAIN in.x_grid_1d_in :
                       /\ Abs(in.x_grid_1d_in[j] - in.x_grid_1d_out[p]) < 4
                       /\ Abs(in.y_grid_1d_in[j] - in.y_grid_1d_out[p]) < 4}}

\* C18: for any list of output points, the operator has one row per output
\* point; the row of a point outside the grid is all zero; the row of a
\* point inside bears weights on its nearest in-grid neighbours only, and
\* these weights sum to 1.
C18_RowsOfOperator ==
    interpol_ret.op = "build_bilinear_interpol_matrix" =>
      LET in == interpol_in
          r == interpol_ret.out
      IN  /\ r.err = ""
          /\ r.shape = <<Len(in.x_grid_1d_out), Len(in.x_grid_1d_in)>>
          /\ \A p \in 1..Len(in.x_grid_1d_out) :
               LET E == EntriesOf(r.entries, p - 1) IN
               IF OutOfBounds(in, p) THEN E = {}
               ELSE /\ E # {}
                    /\ \A i \in E :
                         /\ r.entries[i].col \in Neighbours(in, p)
                         /\ r.entries[i].weight[2] # 0
                         /\ Numerators(r.entries, E) = r.entries[i].weight[2]

\* C19: when the output points are the points of the square input grid,
\* in the same order, the operator is the identity: from each output point
\* a total weight 1 to its own pixel and 0 to every other, whatever the
\* directions of the axes.
C19_IdentityOnSameGrid ==
    (interpol_ret.op = "build_bilinear_interpol_matrix" /\ interpol_in.same_grid)
    => LET n == Len(interpol_in.x_grid_1d_in)
           r == interpol_ret.out
       IN  /\ r.err = ""
           /\ r.shape = <<n, n>>
           /\ \A row, col \in 0..(n - 1) :
                LET E == EntriesAt(r.entries, row, col) IN
                IF row = col
                THEN /\ E # {}
                     /\ \A i \in E :
                          /\ r.entries[i].weight[2] # 0
                          /\ Numerators(r.entries, E) = r.entries[i].weight[2]
                ELSE Numerators(r.entries, E) = 0

\* The operator has been built for a 3 x 3 grid with both axes decreasing,
\* queried at its own points.
C19_Witness ==
    /\ interpol_ret.op = "build_bilinear_interpol_matrix"
    /\ interpol_in.same_grid
    /\ interpol_in.num_pix = 3
    /\ interpol_in.x_dir = -1
    /\ interpol_in.y_dir = -1
    /\ interpol_ret.out.err = ""
    /\ Len(interpol_ret.out.entries) = 36

\* ---------------------------------------------------------------------
\* unconstrain_reparam (Inference/ProbModel/numpyro_util.py, lines 15-61).
\* A site is the message of a numpyro primitive: its name, its type, for a
\* 'param' site the kwargs 'constraint' and 'event_dim', for a 'sample'
\* site the support and the event shape of its distribution and the scan
\* index of its infer dict.  Values are terms: the substituted value p of
\* the site, and what a transform makes of it.
\* ---------------------------------------------------------------------
MaxEventShape == 1

SiteNames == {"a", "b"}
Constraints == {"real", "positive", "unit_interval"}
Supports == {"real", "independent(real)", "positive", "unit_interval"}
Absent == "absent"

\* site["kwargs"]["event_dim"] and len() of it (line 26): the key may be
\* missing; numpyro.param stores an integer or None; a sized value is the
\* only one len() accepts.
EventDims ==
    {[kind |-> k, len |-> 0] : k \in {Absent, "None", "int"}}
    \cup {[kind |-> "tuple", len |-> n] : n \in 0..MaxEventShape}
len_event_dim(event_dim) ==
    IF event_dim.kind = Absent THEN [err |-> "KeyError", len |-> 0]
    ELSE IF event_dim.kind \in {"None", "int"} THEN [err |-> "TypeError", len |-> 0]
    ELSE [err |-> "", len |-> event_dim.len]

\* transforms.biject_to(constraint) applied to p: the identity for the real
\* line, a bijection named after the constraint otherwise.
IsReal(support) == support \in {"real", "independent(real)"}
transform(constraint, p) ==
    IF IsReal(constraint) THEN [of |-> p, by |-> "identity"]
    ELSE [of |-> p, by |-> constraint]
Untouched(p) == [of |-> p, by |-> "none"]

\* The factor of lines 55-59: its name, and the log-abs-det-Jacobian of the
\* transform at p with its rightmost dimensions summed.
log_det_factor(name, constraint, p, rightmost) ==
    [name |-> "_" \o name \o "_log_det",
     log_abs_det_jacobian |-> [of |-> p, by |-> constraint],
     sum_rightmost |-> rightmost]

Returned(value, factors) == [err |-> "", value |-> value, factors |-> factors, none |-> FALSE]
Raised(error) == [err |-> error, value |-> Untouched(""), factors |-> <<>>, none |-> FALSE]
ReturnedNone == [err |-> "", value |-> Untouched(""), factors |-> <<>>, none |-> TRUE]

unconstrain_reparam(params, site) ==
    IF site.name \notin params THEN ReturnedNone
    ELSE LET p == site.name IN
         IF site.type = "param"
         THEN LET constraint == IF site.constraint = Absent THEN "real"
                                ELSE site.constraint
                  n == len_event_dim(site.event_dim)
              IN  IF n.err # "" THEN Raised(n.err)
                  ELSE Returned(transform(constraint, p), <<>>)
         ELSE IF site.scan_current_index # "None" THEN Raised("NameError")
         ELSE IF IsReal(site.support) THEN Returned(Untouched(p), <<>>)
         ELSE Returned(transform(site.support, p),
                       <<log_det_factor(site.name, site.support, p,
                                        site.event_shape_len)>>)

\* The sites: time_dim tells that the value supplied for the site has one
\* dimension more than the unconstrained value of the site (line 39).
ParamSites ==
    {[name |-> n, type |-> "param", constraint |-> c, event_dim |-> e,
      support |-> Absent, event_shape_len |-> 0, scan_current_index |-> "None",
      time_dim |-> FALSE] :
        n \in SiteNames, c \in Constraints \cup {Absent}, e \in EventDims}

SampleSites ==
    {[name |-> n, type |-> "sample", constraint |-> Absent,
      event_dim |-> [kind |-> Absent, len |-> 0],
      support |-> s, event_shape_len |-> k, scan_current_index |-> i,
      time_dim |-> d] :
        n \in SiteNames, s \in Supports, k \in 0..MaxEventShape,
        i \in {"None", "0"}, d \in BOOLEAN}

InitReparamInputs ==
    /\ InitParameters
    /\ InitComposite
    /\ InitLensImage
    /\ InitConv
    /\ InitInterpol
    /\ \E params \in SUBSET SiteNames, site \in ParamSites \cup SampleSites :
          reparam_in = [status |-> "given", params |-> params, site |-> site]
    /\ reparam_ret = NoRet

UnconstrainReparam ==
    /\ reparam_ret.op = "none"
    /\ reparam_ret' = [op |-> "unconstrain_reparam",
                       out |-> unconstrain_reparam(reparam_in.params,
                                                   reparam_in.site)]
    /\ UNCHANGED <<parameters, composite, composite_ret, lens_image,
                   lens_image_ret, conv, conv_ret, interpol_in, interpol_ret,
                   reparam_in>>

NextReparam == UnconstrainReparam

SpecReparam == InitReparamInputs /\ [][NextReparam]_vars

\* C20: for a site whose name is in params, unconstrain_reparam returns, on
\* a 'param' site, the value transformed to the site's constraint and adds
\* no factor; on a 'sample' site with non-real support, the transformed
\* value and exactly one factor '_<name>_log_det', the log-abs-det-Jacobian
\* summed over the event dimensions of the site; on a 'sample' site with
\* real support, the value unchanged and no factor.
C20_ReparamBySiteKind ==
    (/\ reparam_ret.op = "unconstrain_reparam"
     /\ reparam_in.site.name \in reparam_in.params)
    => LET site == reparam_in.site
           out == reparam_ret.out
           p == site.name
       IN  /\ out.err = ""
           /\ ~out.none
           /\ site.type = "param" =>
                /\ out.value = transform(IF site.constraint = Absent THEN "real"
                                         ELSE site.constraint, p)
                /\ out.factors = <<>>
           /\ (site.type = "sample" /\ ~IsReal(site.support)) =>
                /\ out.value = transform(site.support, p)
                /\ Len(out.factors) = 1
                /\ out.factors[1] = log_det_factor(site.name, site.support, p,
                                                   site.event_shape_len)
           /\ (site.type = "sample" /\ IsReal(site.support)) =>
                /\ out.value = Untouched(p)
                /\ out.factors = <<>>

\* C21: on a 'sample' site that carries a scan index i (and whose name is in
\* params) unconstrain_reparam completes without error, and the value it
\* works on is the slice p[i] when the supplied value has one more (time)
\* dimension than the unconstrained value of the site, the whole p otherwise.
C21_ScanSlice ==
    (/\ reparam_ret.op = "unconstrain_reparam"
     /\ reparam_in.site.name \in reparam_in.params
     /\ reparam_in.site.type = "sample"
     /\ reparam_in.site.scan_current_index # "None")
    => LET site == reparam_in.site
           out == reparam_ret.out
           p == IF site.time_dim
                THEN site.name \o "[" \o site.scan_current_index \o "]"
                ELSE site.name
       IN  /\ out.err = ""
           /\ ~out.none
           /\ out.value = IF IsReal(site.support) THEN Untouched(p)
                          ELSE transform(site.support, p)

\* C23: SubgridKernelConvolution.re_size_convolve(low, high) returns the
\* high-resolution image convolved with the high-resolution kernel and
\* downsampled by the supersampling factor, plus the low-resolution image
\* convolved with the low-resolution kernel if and only if
\* supersampling_kernel_size was given at construction; when it was not,
\* the whole supersampled kernel is the high-resolution kernel and there
\* is no low-resolution term.
C23_SubgridReSizeConvolve ==
    conv_ret.op = "Subgrid.re_size_convolve" =>
      LET a == conv.given
          kernels == split_kernel(a.kernel_supersampled,
                                  a.supersampling_kernel_size,
                                  a.supersampling_factor)
          high(kernel) ==
              [op |-> "re_size",
               image |-> [op |-> "convolve2d", image |-> conv_ret.image_high_res,
                          kernel |-> kernel, factor |-> 1],
               kernel |-> "", factor |-> a.supersampling_factor]
      IN  IF a.supersampling_kernel_size # 0
          THEN /\ Len(conv_ret.out) = 2
               /\ conv_ret.out[1] = high(kernels.high_res)
               /\ conv_ret.out[2] =
                    [op |-> "convolve2d", image |-> conv_ret.image_low_res,
                     kernel |-> kernels.low_res, factor |-> 1]
          ELSE /\ Len(conv_ret.out) = 1
               /\ conv_ret.out[1] = high(a.kernel_supersampled)

\* A low-resolution term has been added for an object built with a
\* supersampling_kernel_size and a supersampling factor 2.
C23_Witness ==
    /\ conv_ret.op = "Subgrid.re_size_convolve"
    /\ conv.given.supersampling_kernel_size = 3
    /\ conv.given.supersampling_factor = 2
    /\ conv_ret.image_low_res # conv_ret.image_high_res
    /\ Len(conv_ret.out) = 2

\* C24: a MultiGaussianConvolution stores the weights
\* fraction_list[i] / sum(fraction_list), which sum to one, and the standard
\* deviations sigma_list[i] / pixel_scale, times supersampling_factor exactly
\* when supersampling_convolution is True; re_size_convolve convolves the
\* high-resolution image and downsamples it when supersampling_convolution
\* is True and convolves the low-resolution image otherwise, a convolution
\* being the sum over the Gaussians of weight times filter output.
C24_MultiGaussian ==
    (conv.status = "built" /\ conv.cls = "MultiGaussianConvolution") =>
      LET a == conv.given
          n == Len(a.sigma_list)
          total == SumOver(a.fraction_list, 1..n)
          k == IF a.supersampling_convolution THEN a.supersampling_factor ELSE 1
      IN  /\ Len(conv.fraction_list) = n
          /\ Len(conv.sigmas_scaled) = n
          /\ \A i \in 1..n :
               /\ conv.fraction_list[i][2] # 0
               /\ conv.fraction_list[i][1] * total
                    = a.fraction_list[i] * conv.fraction_list[i][2]
               /\ conv.sigmas_scaled[i][2] # 0
               /\ conv.sigmas_scaled[i][1] * a.pixel_scale
                    = a.sigma_list[i] * k * conv.sigmas_scaled[i][2]
          /\ SumOver([i \in 1..n |-> conv.fraction_list[i][1]], 1..n)
               = conv.fraction_list[1][2]
          /\ conv_ret.op = "MultiGaussian.re_size_convolve" =>
               LET out == conv_ret.out
                   image == IF a.supersampling_convolution
                            THEN conv_ret.image_high_res
                            ELSE conv_ret.image_low_res
               IN  /\ out.err = ""
                   /\ out.resized = IF a.supersampling_convolution
                                    THEN a.supersampling_factor ELSE 0
                   /\ Len(out.terms) = n
                   /\ \A i \in 1..n :
                        /\ out.terms[i].op = "GaussianFilter"
                        /\ out.terms[i].image = image
                        /\ out.terms[i].sigma = conv.sigmas_scaled[i]
                        /\ out.terms[i].weight = conv.fraction_list[i]

\* Two Gaussians of unequal fractions, supersampling factor 2 without
\* supersampled convolution: the low-resolution image has been convolved.
C24_Witness ==
    /\ conv.status = "built"
    /\ conv.cls = "MultiGaussianConvolution"
    /\ conv.given.fraction_list = <<1, 3>>
    /\ conv.given.supersampling_factor = 2
    /\ ~conv.given.supersampling_convolution
    /\ conv_ret.op = "MultiGaussian.re_size_convolve"
    /\ conv_ret.image_low_res # conv_ret.image_high_res
    /\ conv_ret.out.resized = 0
    /\ conv_ret.out.terms[2].image = conv_ret.image_low_res

DeclaredNames(kwargs_key, identifier) ==
    IF kwargs_key = "kwargs_lens" /\ identifier = "SHEAR_GAMMA_PSI"
    THEN ShearGammaPsi_param_names
    ELSE IF kwargs_key = "kwargs_lens" /\ identifier = "SHEAR" THEN Shear_param_names
    ELSE IF kwargs_key = "kwargs_lens" /\ identifier = "SIE" THEN SIE_param_names
    ELSE IF identifier = "GAUSSIAN" THEN Gaussian_param_names
    ELSE IF identifier = "SERSIC" THEN Sersic_param_names
    ELSE PixelatedSource_param_names

C30_InitialValues ==
    status = "built" =>
      /\ init_values = kwargs2args(kwargs_model, kwargs_fixed, kwargs_init).args
      /\ ml_values.has = last_fit.has
      /\ ml_values.has => ml_values.val = last_fit.val
      /\ map_values.has = last_samples.has
      /\ map_values.has => map_values.val = Median(last_samples.val, num_params)
      /\ ret.op = "initial_values" =>
           /\ ret.out.err = ""
           /\ IF last_fit.has /\ ~ret.original
              THEN IF ret.as_kwargs
                   THEN ret.out.kw = args2kwargs(kwargs_model, kwargs_fixed,
                                                 last_fit.val).kwargs
                   ELSE ret.out.vec = last_fit.val
              ELSE IF ret.as_kwargs
                   THEN ret.out.kw = kwargs_init
                   ELSE ret.out.vec = init_values

\* initial_values(original=True) has returned the initial vector although a
\* different best fit and samples have been set.
C30_Witness ==
    /\ status = "built"
    /\ ret.op = "initial_values"
    /\ ret.original
    /\ ~ret.as_kwargs
    /\ last_fit.has
    /\ last_samples.has
    /\ num_params > 0
    /\ last_fit.val # init_values
    /\ ret.out.vec = init_values

\* A LensImage built with the default models and no noise provider.
ConstructBareLensImage ==
    /\ lens_image.status = "new"
    /\ \E kwargs_numerics \in NumericsSettings :
         lens_image' = LensImage_init("psf_a", "None", "None", "None", "None",
                                      kwargs_numerics)
    /\ lens_image_ret' = [op |-> "__init__"]
    /\ UNCHANGED <<parameters, composite, composite_ret, conv, conv_ret,
                   interpol_in, interpol_ret, reparam_in, reparam_ret>>

\* The PSF of a LensImage is switched while convolution objects are built
\* and used.
NextResampler == ConstructBareLensImage \/ UpdatePsf \/ NextConv

SpecResampler == Init /\ [][NextResampler]_vars

\* C26: after any sequence of update_psf calls, self.PSF is the PSF supplied
\* last, its pixel size has been set to the pixel width of the grid, and
\* self.ImageNumerics is a newly constructed resampler, built from that PSF
\* and the numerics settings given at construction; and whatever methods
\* have been called on a constructed convolution object, its supersampling
\* factor and its low-resolution-correction flag are those of its
\* construction.
C26_PsfAndResampler ==
    /\ lens_image.status = "built" =>
         /\ lens_image.PSF.name = lens_image.supplied[Len(lens_image.supplied)]
         /\ lens_image.PSF.pixel_size = "Grid.pixel_width"
         /\ lens_image.ImageNumerics.psf = lens_image.PSF
         /\ lens_image.ImageNumerics.kwargs =
              (IF lens_image.given_numerics = "None" THEN "{}"
               ELSE lens_image.given_numerics)
         /\ lens_image.ImageNumerics.serial = Len(lens_image.supplied)
    /\ (conv.status = "built" /\ conv.cls = "SubgridKernelConvolution") =>
         /\ conv.supersampling_factor = conv.given.supersampling_factor
         /\ conv.low_res_convolution
              <=> conv.given.supersampling_kernel_size # 0
    /\ (conv.status = "built" /\ conv.cls = "MultiGaussianConvolution") =>
         /\ conv.supersampling_factor = conv.given.supersampling_factor
         /\ conv.supersampling_convolution
              <=> conv.given.supersampling_convolution

\* Two update_psf calls, the last one with a PSF other than the one of the
\* construction, and a method called on a supersampled convolution object
\* with low-resolution correction.
C26_Witness ==
    /\ lens_image.status = "built"
    /\ Len(lens_image.supplied) = 3
    /\ lens_image.supplied[3] = "psf_b"
    /\ lens_image.given_numerics # "None"
    /\ lens_image.ImageNumerics.serial = 3
    /\ conv.status = "built"
    /\ conv.cls = "SubgridKernelConvolution"
    /\ conv.low_res_convolution
    /\ conv_ret.op = "Subgrid.re_size_convolve"

(***************************************************************************)
(* The scenario of a shear in front of a uniform source: the codec and the  *)
(* composers are built from the specification, and the image is made by    *)
(* ray-shooting, source evaluation, resize and PSF convolution.            *)
(* gamma1 and gamma2 are kept in tenths, coordinates in tenths of a pixel  *)
(* once deflected, and kernel weights as numerators over the sum of the    *)
(* kernel, so that a pixel of value amp is the number amp * KernelSum.     *)
(***************************************************************************)
\* The values of the scenario: gamma1 = 0.1 and gamma2 = 0.0 in tenths, and
\* the amplitude 5.0.
Scenario == [gamma1 |-> 1, gamma2 |-> 0, amp |-> 5]

ShearScenarioProfile(F) ==
    [model |-> "SHEAR",
     fixed |-> [n \in F |-> Scalar(0)],
     init |-> [n \in Range(Shear_param_names) |->
                  IF n = "gamma1" THEN Scalar(Scenario.gamma1)
                  ELSE IF n = "gamma2" THEN Scalar(Scenario.gamma2)
                  ELSE Scalar(0)],
     prior |-> UniformPriors(Shear_param_names)]

UniformScenarioProfile(F) ==
    [model |-> "UNIFORM",
     fixed |-> [n \in F |-> Scalar(Scenario.amp)],
     init |-> [n \in {"amp"} |-> Scalar(Scenario.amp)],
     prior |-> [n \in {"amp"} |-> UniformEntry(Scalar(0), Scalar(10))]]

\* The specification of the scenario, with the centre of the shear free or
\* fixed and the amplitude free or fixed.
ScenarioConfigs ==
    {MkConfig(<<ShearScenarioProfile(F)>>, <<UniformScenarioProfile(G)>>, <<>>) :
        F \in {{}, {"ra_0", "dec_0"}}, G \in {{}, {"amp"}}}

ScenarioModel ==
    [lens_model_list |-> <<"SHEAR">>, source_model_list |-> <<"UNIFORM">>,
     lens_light_model_list |-> <<>>]

\* Shear.derivatives (lines 30-44), in tenths.
Shear_derivatives(x, y, gamma1, gamma2, ra_0, dec_0) ==
    LET x_ == x - ra_0
        y_ == y - dec_0
    IN  [f_x |-> gamma1 * x_ + gamma2 * y_, f_y |-> gamma2 * x_ - gamma1 * y_]

\* The lens equation: the position in the source plane, in tenths.
ray_shooting(x, y, gamma1, gamma2) ==
    LET alpha == Shear_derivatives(x, y, gamma1, gamma2, 0, 0)
    IN  [x |-> 10 * x - alpha.f_x, y |-> 10 * y - alpha.f_y]

\* Uniform.function(x, y, amp): amp at every position.
Uniform_function(x, y, amp) == amp

\* image_flux_joint on the grid of nx x ny pixels (lens_image.py line 99).
image_flux_joint(nx, ny, gamma1, gamma2, amp) ==
    [i \in 1..nx |-> [j \in 1..ny |->
        LET beta == ray_shooting(i, j, gamma1, gamma2)
        IN  Uniform_function(beta.x, beta.y, amp)]]

\* source_surface_brightness for a source that is not empty (lines 96-102),
\* without supersampling, and model with no lens light (lines 139-145).
pipeline(psf, nx, ny, gamma1, gamma2, amp) ==
    re_size_convolve(psf, image_flux_joint(nx, ny, gamma1, gamma2, amp))

KernelSum(kernel) ==
    LET K == (1..Rows(kernel)) \X (1..Cols(kernel))
    IN  SumOver([ab \in K |-> kernel[ab[1]][ab[2]]], K)

ConstructScenario == \E c \in ScenarioConfigs :
    /\ Construct(c)
    /\ UNCHANGED <<outside, names_cache, ml_values, kwargs_ml, map_values,
                   kwargs_map, last_fit, last_samples>>

ComposeScenario ==
    /\ composite.status = "new"
    /\ \/ \E grid_fixed \in BOOLEAN :
            composite' = MassModelBase_init(ScenarioModel.lens_model_list,
                                            grid_fixed)
       \/ composite' = LightModelBase_init(ScenarioModel.source_model_list)
       \/ composite' =
            LightModelBase_init(ScenarioModel.lens_light_model_list)
    /\ composite_ret' = [op |-> "__init__"]
    /\ UNCHANGED <<parameters, lens_image, lens_image_ret, conv, conv_ret,
                   interpol_in, interpol_ret, reparam_in, reparam_ret>>

ConstructPsf ==
    /\ conv.status = "new"
    /\ \E kernel \in Kernels :
         conv' = PixelKernelConvolution_init(kernel, "grid")
    /\ conv_ret' = [op |-> "__init__"]
    /\ UNCHANGED <<parameters, composite, composite_ret, lens_image,
                   lens_image_ret, interpol_in, interpol_ret, reparam_in,
                   reparam_ret>>

Pipeline ==
    /\ conv.status = "built"
    /\ \E nx \in 1..MaxImage, ny \in 1..MaxImage :
         conv_ret' = [op |-> "pipeline", nx |-> nx, ny |-> ny,
                      out |-> pipeline(conv, nx, ny, Scenario.gamma1,
                                       Scenario.gamma2, Scenario.amp)]
    /\ UNCHANGED <<parameters, composite, composite_ret, lens_image,
                   lens_image_ret, conv, interpol_in, interpol_ret,
                   reparam_in, reparam_ret>>

NextEndToEnd == ConstructScenario \/ ComposeScenario \/ ConstructPsf \/ Pipeline

SpecEndToEnd == Init /\ [][NextEndToEnd]_vars

\* C22: with mass ['SHEAR'] (gamma1 0.1, gamma2 0.0), source ['UNIFORM']
\* (amplitude 5.0) and no lens light, the codec and the composers accept
\* the specification, and the image made by ray-shooting, source
\* evaluation, resize and PSF convolution has the value 5.0 in every pixel
\* of the grid, the pixels at the border included.
C22_EndToEnd ==
    /\ (status # "new" /\ kwargs_model = ScenarioModel) => status = "built"
    /\ composite.status # "new" => composite.status = "built"
    /\ conv_ret.op = "pipeline" =>
         /\ conv_ret.out.err = ""
         /\ Rows(conv_ret.out.out) = conv_ret.nx
         /\ \A i \in 1..conv_ret.nx : \A j \in 1..conv_ret.ny :
              conv_ret.out.out[i][j] = Scenario.amp * KernelSum(conv.kernel)

\* The image of the scenario alone: every pixel has the value of the
\* amplitude.
C22_ImagePart ==
    conv_ret.op = "pipeline" =>
         /\ conv_ret.out.err = ""
         /\ \A i \in 1..conv_ret.nx : \A j \in 1..conv_ret.ny :
              conv_ret.out.out[i][j] = Scenario.amp * KernelSum(conv.kernel)

====
